---------------------------- MODULE Spec2Model ----------------------------
(***************************************************************************)
(* A model of the HubSpot customer/lead report dashboard's data pipeline   *)
(* (src/app/lib/hubspot-actions.ts): the currency parser, the brand        *)
(* extraction, the aggregation engine processAccountDataInternal, the      *)
(* contact transformer and the server action fetchAndProcessHubSpotData    *)
(* with its flat-file (CSV) fallback.                                      *)
(*                                                                         *)
(* Conventions of the model                                                *)
(*  - Text is a TLA+ string; a character is a string of length 1.          *)
(*  - An optional field that is absent is the empty string "": every read  *)
(*    of such a field in the source goes through `||` or `?.`, which treat *)
(*    undefined and "" alike.                                              *)
(*  - A number is a record [hi, lo] standing for hi * 10^6 + lo hundredths *)
(*    of a currency unit (cents), 0 <= lo < 10^6: TLC's integers are 32    *)
(*    bits wide and the source compares against 1e12.                      *)
(*  - An instant is an integer YYYYMMDD (day resolution, one time zone).    *)
(***************************************************************************)
EXTENDS Integers, Sequences, FiniteSets, TLC

(***************************************************************************)
(* Bounds of the model.                                                    *)
(***************************************************************************)
\* longest account collection handed to the aggregation engine
MaxAccounts == 3

(***************************************************************************)
(* Text helpers (String.prototype methods used by the source).             *)
(***************************************************************************)
\* the characters i..j of s (1-based, inclusive), clipped to the text
Slice(s, i, j) ==
  LET a == IF i < 1 THEN 1 ELSE i
      b == IF j > Len(s) THEN Len(s) ELSE j
  IN  IF a > b THEN "" ELSE SubSeq(s, a, b)

CharAt(s, i) == Slice(s, i, i)

Digits == {"0", "1", "2", "3", "4", "5", "6", "7", "8", "9"}

UpperLetters == {"A", "B", "C", "D", "E", "F", "G", "H", "I", "J", "K", "L", "M",
                 "N", "O", "P", "Q", "R", "S", "T", "U", "V", "W", "X", "Y", "Z"}

LowerLetters == {"a", "b", "c", "d", "e", "f", "g", "h", "i", "j", "k", "l", "m",
                 "n", "o", "p", "q", "r", "s", "t", "u", "v", "w", "x", "y", "z"}

\* \s of a regular expression, over the characters the inputs use
Whitespace == {" "}

DigitValue(c) ==
  CASE c = "0" -> 0 [] c = "1" -> 1 [] c = "2" -> 2 [] c = "3" -> 3 [] c = "4" -> 4
    [] c = "5" -> 5 [] c = "6" -> 6 [] c = "7" -> 7 [] c = "8" -> 8 [] c = "9" -> 9

LowerChar(c) ==
  CASE c = "A" -> "a" [] c = "B" -> "b" [] c = "C" -> "c" [] c = "D" -> "d"
    [] c = "E" -> "e" [] c = "F" -> "f" [] c = "G" -> "g" [] c = "H" -> "h"
    [] c = "I" -> "i" [] c = "J" -> "j" [] c = "K" -> "k" [] c = "L" -> "l"
    [] c = "M" -> "m" [] c = "N" -> "n" [] c = "O" -> "o" [] c = "P" -> "p"
    [] c = "Q" -> "q" [] c = "R" -> "r" [] c = "S" -> "s" [] c = "T" -> "t"
    [] c = "U" -> "u" [] c = "V" -> "v" [] c = "W" -> "w" [] c = "X" -> "x"
    [] c = "Y" -> "y" [] c = "Z" -> "z" [] OTHER -> c

RECURSIVE toLowerCase(_)
toLowerCase(s) ==
  IF s = "" THEN "" ELSE LowerChar(Head(s)) \o toLowerCase(Tail(s))

\* s.includes(sub)
includes(s, sub) ==
  \E i \in 1..(Len(s) - Len(sub) + 1) : SubSeq(s, i, i + Len(sub) - 1) = sub

\* s.indexOf(sub), 1-based; 0 when sub does not occur
indexOf(s, sub) ==
  LET hits == {i \in 1..(Len(s) - Len(sub) + 1) : SubSeq(s, i, i + Len(sub) - 1) = sub}
  IN  IF hits = {} THEN 0 ELSE CHOOSE i \in hits : \A j \in hits : i <= j

RECURSIVE trimStart(_)
trimStart(s) ==
  IF s # "" /\ Head(s) \in Whitespace THEN trimStart(Tail(s)) ELSE s

RECURSIVE trimEnd(_)
trimEnd(s) ==
  IF s # "" /\ CharAt(s, Len(s)) \in Whitespace
    THEN trimEnd(Slice(s, 1, Len(s) - 1)) ELSE s

trim(s) == trimEnd(trimStart(s))

\* s.replace(/[$,\s]/g, "")
RECURSIVE stripDecoration(_)
stripDecoration(s) ==
  IF s = "" THEN ""
  ELSE IF Head(s) \in ({"$", ","} \cup Whitespace) THEN stripDecoration(Tail(s))
  ELSE Head(s) \o stripDecoration(Tail(s))

(***************************************************************************)
(* Numbers: hi * Base + lo cents.                                          *)
(***************************************************************************)
Base == 1000 * 1000

Norm(h, l) == [hi |-> h + (l \div Base), lo |-> l % Base]

Zero == [hi |-> 0, lo |-> 0]

\* n whole currency units, |n| < 10^7
Units(n) == Norm(0, n * 100)

Add(a, b) == Norm(a.hi + b.hi, a.lo + b.lo)

Neg(a) == Norm(-a.hi, -a.lo)

Lt(a, b) == a.hi < b.hi \/ (a.hi = b.hi /\ a.lo < b.lo)

Leq(a, b) == a = b \/ Lt(a, b)

\* Math.abs
Abs(a) == IF Lt(a, Zero) THEN Neg(a) ELSE a

\* a - b
Sub(a, b) == Add(a, Neg(b))

RECURSIVE SumNums(_)
SumNums(seq) ==
  IF seq = <<>> THEN Zero ELSE Add(SumNums(SubSeq(seq, 1, Len(seq) - 1)), seq[Len(seq)])

\* the quotient num / den of a floating-point division, kept exact
Ratio(n, d) == [num |-> n, den |-> d]

(***************************************************************************)
(* parseFloat and parseCurrency.                                           *)
(***************************************************************************)
\* a parseFloat result: a finite number, NaN or an infinity
Finite(v) == [kind |-> "finite", val |-> v]
NaN == [kind |-> "NaN", val |-> Zero]
Infinity == [kind |-> "Infinity", val |-> Zero]
NegInfinity == [kind |-> "-Infinity", val |-> Zero]

isNaN(x) == x.kind = "NaN"

isFinite(x) == x.kind = "finite"

RECURSIVE LeadingDigits(_)
LeadingDigits(s) ==
  IF s # "" /\ Head(s) \in Digits THEN 1 + LeadingDigits(Tail(s)) ELSE 0

\* the value of a digit string, in whole units
RECURSIVE DigitsValue(_)
DigitsValue(s) ==
  IF s = "" THEN [hi |-> 0, lo |-> 0]
  ELSE LET r == DigitsValue(Slice(s, 1, Len(s) - 1))
       IN  Norm(r.hi * 10, r.lo * 10 + DigitValue(CharAt(s, Len(s))))

\* Number.parseFloat on a text without leading whitespace: the longest prefix
\* that is a decimal literal ([+-] digits [. digits] | [+-] Infinity); the
\* fraction is kept to its first two digits, an exponent part is not read.
parseFloat(s) ==
  LET magnitude(whole, frac) ==
        Norm(whole.hi * 100,
             whole.lo * 100 + DigitValue(CharAt(frac, 1)) * 10 + DigitValue(CharAt(frac, 2)))
      signed(neg, mag) == Finite(IF neg THEN Neg(mag) ELSE mag)
      decimal(neg, body, n, rest, f) ==
        IF n = 0 /\ f = 0 THEN NaN
        ELSE signed(neg, magnitude(DigitsValue(Slice(body, 1, n)),
                                   Slice(rest, 2, 1 + f) \o "00"))
      fraction(rest) ==
        IF rest # "" /\ Head(rest) = "." THEN LeadingDigits(Tail(rest)) ELSE 0
      digits(neg, body, n, rest) ==
        IF Slice(body, 1, 8) = "Infinity" THEN (IF neg THEN NegInfinity ELSE Infinity)
        ELSE decimal(neg, body, n, rest, fraction(rest))
      whole(neg, body, n) == digits(neg, body, n, Slice(body, n + 1, Len(body)))
      unsigned(neg, body) == whole(neg, body, LeadingDigits(body))
  IN  unsigned(s # "" /\ Head(s) = "-",
               IF s # "" /\ Head(s) \in {"-", "+"} THEN Tail(s) ELSE s)

\* the values of the parameter type string | number | null | undefined
TextValue(t) == [type |-> "string", text |-> t, number |-> NaN]

NumberValue(x) == [type |-> "number", text |-> "", number |-> x]

NullValue == [type |-> "null", text |-> "", number |-> NaN]

UndefinedValue == [type |-> "undefined", text |-> "", number |-> NaN]

\* the number as it was read, without the test of line 15
parseCurrencyUnchecked(value) ==
  IF value.type = "number" THEN value.number
  ELSE IF value.type # "string" \/ value.text = "" THEN Finite(Zero)
  ELSE parseFloat(stripDecoration(value.text))

\* parseCurrency on a value of its parameter type; the result is a number
parseCurrencyValue(value) ==
  LET orZero(num) == IF ~isNaN(num) /\ isFinite(num) THEN num ELSE Finite(Zero)
  IN  IF value.type = "number" THEN orZero(value.number)
      ELSE IF value.type # "string" \/ value.text = "" THEN Finite(Zero)
      ELSE orZero(parseFloat(stripDecoration(value.text)))

\* parseCurrency of a text value (the type of AccountData["Total Sales"])
parseCurrency(value) == parseCurrencyValue(TextValue(value)).val

\* String(num) of a finite number: the decimal text without trailing zeros
stringOfNumber(num) ==
  LET pad(text, n) ==
        IF Len(text) >= n THEN text ELSE SubSeq("000000", 1, n - Len(text)) \o text
      fractionOf(frac) ==
        IF frac = "00" THEN ""
        ELSE IF CharAt(frac, 2) = "0" THEN "." \o CharAt(frac, 1)
        ELSE "." \o frac
      split(digits) ==
        Slice(digits, 1, Len(digits) - 2)
          \o fractionOf(Slice(digits, Len(digits) - 1, Len(digits)))
      unsigned(v) ==
        split(pad(IF v.hi > 0 THEN ToString(v.hi) \o pad(ToString(v.lo), 6)
                  ELSE ToString(v.lo), 3))
  IN  IF Lt(num.val, Zero) THEN "-" \o unsigned(Neg(num.val)) ELSE unsigned(num.val)

calculateAverage(arr) ==
  IF Len(arr) = 0 THEN Ratio(Zero, 1) ELSE Ratio(SumNums(arr), Len(arr))

(***************************************************************************)
(* Dates.  A Date object is [valid, t] with t = YYYYMMDD; an invalid Date  *)
(* (getTime() is NaN) has valid = FALSE.  Date texts are read in the two   *)
(* forms the pipeline produces: M/D/YYYY (toLocaleDateString("en-US")) and *)
(* YYYY-MM-DD... (the remote API's timestamps); any other text is an       *)
(* invalid Date.                                                           *)
(***************************************************************************)
DateOf(y, m, d) == [valid |-> TRUE, t |-> y * 10000 + m * 100 + d]

InvalidDate == [valid |-> FALSE, t |-> 0]

\* an absent (undefined) Date argument
NoDate == [valid |-> FALSE, t |-> -1]

getFullYear(date) == date.t \div 10000

getMonth(date) == ((date.t \div 100) % 100) - 1

getDate(date) == date.t % 100

AllDigits(s) == s # "" /\ LeadingDigits(s) = Len(s)

\* the value of a short digit string
IntOf(s) == DigitsValue(s).lo

\* new Date(text)
newDate(text) ==
  LET us(mm, dd, yy) ==
        /\ AllDigits(mm) /\ Len(mm) <= 2 /\ AllDigits(dd) /\ Len(dd) <= 2
        /\ AllDigits(yy) /\ Len(yy) = 4
        /\ IntOf(mm) \in 1..12 /\ IntOf(dd) \in 1..31
      iso(yy, mm, dd) ==
        /\ Len(text) >= 10
        /\ AllDigits(yy) /\ CharAt(text, 5) = "-"
        /\ AllDigits(mm) /\ CharAt(text, 8) = "-"
        /\ AllDigits(dd)
        /\ IntOf(mm) \in 1..12 /\ IntOf(dd) \in 1..31
        /\ (Len(text) = 10 \/ CharAt(text, 11) = "T")
      date(yy, mm, dd) == DateOf(IntOf(yy), IntOf(mm), IntOf(dd))
      isoDate(yy, mm, dd) == IF iso(yy, mm, dd) THEN date(yy, mm, dd) ELSE InvalidDate
      usDate(mm, dd, yy) ==
        IF us(mm, dd, yy) THEN date(yy, mm, dd)
        ELSE isoDate(Slice(text, 1, 4), Slice(text, 6, 7), Slice(text, 9, 10))
      split2(i1, r1, i2) ==
        IF i1 > 0 /\ i2 > 0
          THEN usDate(Slice(text, 1, i1 - 1), Slice(r1, 1, i2 - 1), Slice(r1, i2 + 1, Len(r1)))
          ELSE isoDate(Slice(text, 1, 4), Slice(text, 6, 7), Slice(text, 9, 10))
      split1(i1, r1) == split2(i1, r1, indexOf(r1, "/"))
      split(i1) == split1(i1, Slice(text, i1 + 1, Len(text)))
  IN  split(indexOf(text, "/"))

\* date.toLocaleDateString("en-US")
toLocaleDateString(date) ==
  IF date.valid
    THEN ToString(getMonth(date) + 1) \o "/" \o ToString(getDate(date)) \o "/"
           \o ToString(getFullYear(date))
    ELSE "Invalid Date"

\* a < b on Dates: false when either side is invalid (NaN)
DateLt(a, b) == a.valid /\ b.valid /\ a.t < b.t

IsLeap(y) == (y % 4 = 0 /\ y % 100 # 0) \/ y % 400 = 0

DaysBeforeMonth(y, m) ==
  LET len == <<31, IF IsLeap(y) THEN 29 ELSE 28, 31, 30, 31, 30, 31, 31, 30, 31, 30, 31>>
      cum[k \in 0..12] == IF k = 0 THEN 0 ELSE cum[k - 1] + len[k]
  IN  cum[m - 1]

\* the number of the day of a valid Date, counted from a fixed origin
DayNumber(date) ==
  LET days(y, p) ==
        p * 365 + (p \div 4) - (p \div 100) + (p \div 400)
          + DaysBeforeMonth(y, getMonth(date) + 1) + getDate(date)
  IN  days(getFullYear(date), getFullYear(date) - 1)

(***************************************************************************)
(* Brand extraction.                                                       *)
(***************************************************************************)
KNOWN_BRANDS_HS ==
  <<"Hospeco", "Indoff", "Triad", "Impact", "Legacy", "Acme", "Supply", "Corp", "LLC", "Inc">>

GenericSuffixes == {"LLC", "Inc", "Corp", "Group", "Brands"}

\* s.replace(/,$/, "")
stripTrailingComma(s) ==
  IF s # "" /\ CharAt(s, Len(s)) = "," THEN Slice(s, 1, Len(s) - 1) ELSE s

\* accountName.split(/[\s,]+/)[0]
RECURSIVE firstWord(_)
firstWord(s) ==
  IF s = "" \/ Head(s) \in (Whitespace \cup {","}) THEN ""
  ELSE Head(s) \o firstWord(Tail(s))

RECURSIVE brandFrom(_, _)
brandFrom(accountName, k) ==
  LET fallback(w) == IF Len(w) > 2 /\ w \notin {"The", "A", "An"} THEN w ELSE "Other"
      suffixed(brand, potentialBrand) == IF potentialBrand # "" THEN potentialBrand ELSE brand
      found(lowerCaseName, brand, at) ==
        IF brand \in GenericSuffixes /\ trim(Slice(lowerCaseName, 1, at - 1)) # ""
          THEN suffixed(brand, trim(stripTrailingComma(trim(Slice(accountName, 1, at - 1)))))
          ELSE brand
      try(lowerCaseName, brand, lb) ==
        IF includes(lowerCaseName, lb)
          THEN found(lowerCaseName, brand, indexOf(lowerCaseName, lb))
          ELSE brandFrom(accountName, k + 1)
  IN  IF k > Len(KNOWN_BRANDS_HS) THEN fallback(firstWord(accountName))
      ELSE try(toLowerCase(accountName), KNOWN_BRANDS_HS[k], toLowerCase(KNOWN_BRANDS_HS[k]))

\* the first-word fallback alone, without the scan of the known tokens
firstWordBrand(accountName) == brandFrom(accountName, Len(KNOWN_BRANDS_HS) + 1)

extractBrandFromAccountNameHS(accountName) == brandFrom(accountName, 1)

(***************************************************************************)
(* The state code of an address:                                           *)
(*   address.match(/\b([A-Z]{2})\b(?=,?\s*\d{5}(-\d{4})?$)/)               *)
(* "" when the pattern does not match.                                     *)
(***************************************************************************)
WordChars == UpperLetters \cup LowerLetters \cup Digits \cup {"_"}

\* (?=,?\s*\d{5}(-\d{4})?$) on the text that follows the two letters
zipFollows(t) ==
  LET zip(u) ==
        \/ Len(u) = 5 /\ AllDigits(u)
        \/ /\ Len(u) = 10 /\ AllDigits(Slice(u, 1, 5))
           /\ CharAt(u, 6) = "-" /\ AllDigits(Slice(u, 7, 10))
  IN  zip(trimStart(IF t # "" /\ Head(t) = "," THEN Tail(t) ELSE t))

stateMatch(address) ==
  LET first(hits) ==
        IF hits = {} THEN ""
        ELSE LET i == CHOOSE i \in hits : \A j \in hits : i <= j
             IN  Slice(address, i, i + 1)
  IN  first({i \in 1..(Len(address) - 1) :
               /\ CharAt(address, i) \in UpperLetters
               /\ CharAt(address, i + 1) \in UpperLetters
               /\ CharAt(address, i - 1) \notin WordChars
               /\ CharAt(address, i + 2) \notin WordChars
               /\ zipFollows(Slice(address, i + 2, Len(address)))})

(***************************************************************************)
(* Traffic sources and landing pages.                                      *)
(***************************************************************************)
normalizeTrafficSource(source) ==
  LET normalized == toLowerCase(source) IN
  IF source = "" \/ source = "Unknown" THEN "Unknown"
  ELSE IF includes(normalized, "organic") \/ includes(normalized, "seo") THEN "Organic Search"
  ELSE IF includes(normalized, "paid") \/ includes(normalized, "cpc")
            \/ includes(normalized, "adwords") THEN "Paid Search"
  ELSE IF includes(normalized, "social") \/ includes(normalized, "facebook")
            \/ includes(normalized, "linkedin") THEN "Social Media"
  ELSE IF includes(normalized, "email") THEN "Email Marketing"
  ELSE IF includes(normalized, "direct") THEN "Direct Traffic"
  ELSE IF includes(normalized, "referral") THEN "Referral"
  ELSE IF includes(normalized, "offline") THEN "Offline"
  ELSE source

\* a || b on texts
Or(a, b) == IF a # "" THEN a ELSE b

\* new URL(text): an http(s) URL with a host parses, any other text throws;
\* pathname is the text from the first "/" after the host up to "?" or "#"
RECURSIVE upTo(_, _)
upTo(s, stops) ==
  IF s = "" \/ Head(s) \in stops THEN "" ELSE Head(s) \o upTo(Tail(s), stops)

urlRest(text) ==
  IF Slice(text, 1, 8) = "https://" THEN Slice(text, 9, Len(text))
  ELSE IF Slice(text, 1, 7) = "http://" THEN Slice(text, 8, Len(text))
  ELSE ""

urlParses(text) == upTo(urlRest(text), {"/", "?", "#"}) # ""

pathname(text) ==
  LET orRoot(path) == IF path = "" THEN "/" ELSE path
      pathAfter(rest, host) == orRoot(upTo(Slice(rest, Len(host) + 1, Len(rest)), {"?", "#"}))
      of(rest) == pathAfter(rest, upTo(rest, {"/", "?", "#"}))
  IN  of(urlRest(text))

\* the landing-page bucket of a first URL that is not blank
pageNameOf(firstUrl) ==
  LET bucket(p) ==
        IF p = "/" \/ p = "" THEN "Homepage"
        ELSE IF includes(p, "/home") THEN "Home Page"
        ELSE IF includes(p, "/product") THEN "Product Pages"
        ELSE IF includes(p, "/about") THEN "About Us"
        ELSE IF includes(p, "/contact") THEN "Contact Us"
        ELSE IF includes(p, "/blog") THEN "Blog"
        ELSE IF includes(p, "/pricing") THEN "Pricing"
        ELSE IF includes(p, "/demo") THEN "Demo/Trial"
        ELSE IF includes(p, "/case-study") \/ includes(p, "/case-studies") THEN "Case Studies"
        ELSE IF includes(p, "/resource") THEN "Resources"
        ELSE IF Len(p) > 30 THEN Slice(p, 1, 30) \o "..." ELSE p
  IN  IF urlParses(firstUrl) THEN bucket(pathname(firstUrl))
      ELSE IF Len(firstUrl) > 40 THEN Slice(firstUrl, 1, 40) \o "..." ELSE firstUrl

(***************************************************************************)
(* Dictionaries.  A keyed rollup whose key order is not read back is a     *)
(* function on its keys; one whose entries are listed (Object.entries) is  *)
(* a sequence of [key, val] entries in insertion order.                    *)
(***************************************************************************)
EmptyDict == [k \in {} |-> 0]

Put(d, k, v) == [x \in (DOMAIN d) \cup {k} |-> IF x = k THEN v ELSE d[x]]

RECURSIVE FoldLeft(_, _, _)
FoldLeft(Op(_, _), acc, seq) ==
  IF seq = <<>> THEN acc ELSE FoldLeft(Op, Op(acc, Head(seq)), Tail(seq))

\* the position of key k among the entries es, 0 when it has none
KeyIndex(es, k) ==
  LET any(hits) == IF hits = {} THEN 0 ELSE CHOOSE i \in hits : TRUE
  IN  any({i \in 1..Len(es) : es[i].key = k})

\* Array.prototype.sort with a consistent comparator: a stable sort.
\* Before(a, b) is "the comparator puts a strictly before b".
RECURSIVE InsertSorted(_, _, _)
InsertSorted(Before(_, _), sorted, x) ==
  IF sorted = <<>> THEN <<x>>
  ELSE IF Before(x, sorted[Len(sorted)])
         THEN Append(InsertSorted(Before, SubSeq(sorted, 1, Len(sorted) - 1), x),
                     sorted[Len(sorted)])
         ELSE Append(sorted, x)

StableSort(Before(_, _), seq) ==
  LET Step(acc, x) == InsertSorted(Before, acc, x)
  IN  FoldLeft(Step, <<>>, seq)

\* seq.slice(0, n)
Take(seq, n) == SubSeq(seq, 1, IF n < Len(seq) THEN n ELSE Len(seq))

\* seq.slice(-n), n >= 1
TakeLast(seq, n) == SubSeq(seq, IF Len(seq) > n THEN Len(seq) - n + 1 ELSE 1, Len(seq))

\* seq.reverse()
Reverse(seq) == [i \in 1..Len(seq) |-> seq[Len(seq) + 1 - i]]

\* seq.filter(P)
SelectRows(seq, P(_)) == SelectSeq(seq, P)

(***************************************************************************)
(* processAccountDataInternal: the aggregation engine.                     *)
(* An account is a record with the fields of AccountData the engine reads: *)
(*   AccountID, AccountName, Address, TotalSales, DateCreated,             *)
(*   DateLastQuoted, PrimaryRepName, LifecycleStage, AnalyticsSource,      *)
(*   LatestSource, FirstTouchCampaign, LastTouchCampaign, FirstURL,        *)
(*   NumberOfVisits.                                                       *)
(***************************************************************************)
\* 1e12, the largest magnitude of a sales value the first pass accepts
MaxMagnitude == Norm(100 * 1000 * 1000, 0)

\* mutant of skipsRow: a value of exactly 1e12 is left out too
skipsRowAtLimit(sales) == Leq(MaxMagnitude, Abs(sales))

\* the guard of the first pass: the row is left out when it holds
\* (parseCurrency returns neither NaN nor an infinity)
skipsRow(sales) == Lt(MaxMagnitude, Abs(sales))

\* the guard of validSales.push
isValidSale(sales) == Lt(Zero, sales) /\ Lt(Abs(sales), MaxMagnitude)

salesBand(sales) ==
  IF Lt(sales, Zero) THEN "Negative"
  ELSE IF Leq(sales, Units(1000)) THEN "$0-$1K"
  ELSE IF Leq(sales, Units(5000)) THEN "$1K-$5K"
  ELSE IF Leq(sales, Units(10000)) THEN "$5K-$10K"
  ELSE IF Leq(sales, Units(25000)) THEN "$10K-$25K"
  ELSE "$25K+"

\* the text is a date within the 90 days before the clock reading `now`
\* (a Date later than 00:00 of its day)
quotedRecently(text, now) ==
  LET recent(lastQuotedDate) ==
        lastQuotedDate.valid /\ DayNumber(lastQuotedDate) > DayNumber(now) - 90
  IN  text # "" /\ text # "N/A" /\ recent(newDate(text))

\* mutant of addSale: a bucket that exists is replaced, not added to
addSaleOverwrites(d, k, sales) == Put(d, k, [sales |-> sales, accounts |-> 1])

\* if (!d[k]) d[k] = {sales: 0, accounts: 0}; d[k].sales += sales; d[k].accounts += 1
addSale(d, k, sales) ==
  LET add(cur) == Put(d, k, [sales |-> Add(cur.sales, sales), accounts |-> cur.accounts + 1])
  IN  add(IF k \in DOMAIN d THEN d[k] ELSE [sales |-> Zero, accounts |-> 0])

\* if (!d[k]) d[k] = 0; d[k]++
countUp(d, k) ==
  LET cur == IF k \in DOMAIN d /\ d[k] # 0 THEN d[k] ELSE 0
  IN  Put(d, k, cur + 1)

\* mutant of addLead: the row that creates a bucket is not counted in it
addLeadSkipsFirst(d, k, revenue) ==
  IF k \in DOMAIN d
    THEN Put(d, k, [leads |-> d[k].leads + 1, revenue |-> Add(d[k].revenue, revenue)])
    ELSE Put(d, k, [leads |-> 0, revenue |-> revenue])

\* if (!d[k]) d[k] = {leads: 0, revenue: 0}; d[k].leads++; d[k].revenue += revenue
addLead(d, k, revenue) ==
  LET add(cur) == Put(d, k, [leads |-> cur.leads + 1, revenue |-> Add(cur.revenue, revenue)])
  IN  add(IF k \in DOMAIN d THEN d[k] ELSE [leads |-> 0, revenue |-> Zero])

\* the body of the first data.forEach
mainRow(acc, row, now) ==
  LET counted(sales, rep, brand, lifecycleStage, state) ==
        [acc EXCEPT
           !.totalSalesValue = Add(@, sales),
           !.validSales = IF isValidSale(sales) THEN Append(@, sales) ELSE @,
           !.lifecycleStageDistribution = countUp(@, lifecycleStage),
           !.salesByRep = addSale(@, rep, sales),
           !.salesByBrand = addSale(@, brand, sales),
           !.salesDistribution = [@ EXCEPT ![salesBand(sales)] = @ + 1],
           !.topStates = IF state # "" THEN addSale(@, state, sales) ELSE @,
           !.recentlyQuoted = IF quotedRecently(row.DateLastQuoted, now) THEN @ + 1 ELSE @]
      guarded(sales) ==
        IF skipsRow(sales) THEN acc
        ELSE counted(sales,
                     Or(row.PrimaryRepName, "N/A"),
                     extractBrandFromAccountNameHS(row.AccountName),
                     Or(row.LifecycleStage, "unknown"),
                     stateMatch(row.Address))
  IN  guarded(parseCurrency(row.TotalSales))

mainLoop(data, now) ==
  LET Body(acc, row) == mainRow(acc, row, now)
  IN  FoldLeft(Body,
               [totalSalesValue |-> Zero, validSales |-> <<>>,
                lifecycleStageDistribution |-> EmptyDict,
                salesByRep |-> EmptyDict, salesByBrand |-> EmptyDict,
                salesDistribution |->
                  [b \in {"Negative", "$0-$1K", "$1K-$5K", "$5K-$10K", "$10K-$25K", "$25K+"}
                     |-> 0],
                topStates |-> EmptyDict, recentlyQuoted |-> 0],
               data)

\* the month key `${year}-${month padded to 2}` of a date, kept as the number
\* year * 100 + month: for four-digit years the keys order alike
monthKeyOf(date) == getFullYear(date) * 100 + getMonth(date) + 1

\* the body of the monthCounts pass
monthRow(acc, row) ==
  LET add(monthKey, cur) ==
        Put(acc, monthKey,
            [accounts |-> cur.accounts + 1,
             revenue  |-> Add(cur.revenue, parseCurrency(row.TotalSales))])
      counted(monthKey) ==
        add(monthKey, IF monthKey \in DOMAIN acc THEN acc[monthKey]
                      ELSE [accounts |-> 0, revenue |-> Zero])
      dated(date) == IF ~date.valid THEN acc ELSE counted(monthKeyOf(date))
  IN  IF row.DateCreated = "" \/ row.DateCreated = "N/A" THEN acc
      ELSE dated(newDate(row.DateCreated))

monthCounts(data) == FoldLeft(monthRow, EmptyDict, data)

RECURSIVE Ascending(_)
Ascending(S) ==
  IF S = {} THEN <<>>
  ELSE LET m == CHOOSE x \in S : \A y \in S : x <= y
       IN  <<m>> \o Ascending(S \ {m})

\* Object.entries(monthCounts).sort(by key).slice(-12).map(...); the month label
\* is a function of the key and is kept as the key
monthlyTrends(data) ==
  LET rows(mc, keys) ==
        [i \in 1..Len(keys) |->
           [month |-> keys[i], accounts |-> mc[keys[i]].accounts,
            revenue |-> mc[keys[i]].revenue]]
      last12(mc) == rows(mc, TakeLast(Ascending(DOMAIN mc), 12))
  IN  last12(monthCounts(data))

\* a comparator that also puts an account before the accounts of equal value
salesNotAfter(a, b) == Leq(parseCurrency(b.TotalSales), parseCurrency(a.TotalSales))

\* the comparator of sortedAccounts: descending parsed sales value
salesBefore(a, b) == Lt(parseCurrency(b.TotalSales), parseCurrency(a.TotalSales))

sortedAccounts(data) == StableSort(salesBefore, data)

isNegativeSale(acc) == Lt(parseCurrency(acc.TotalSales), Zero)

isNonNegativeSale(acc) == ~Lt(parseCurrency(acc.TotalSales), Zero)

\* the head of the collection as it was handed in
firstAccounts(data) == Take(data, 5)

topPerformingAccounts(data) == Take(sortedAccounts(data), 5)

\* the negative accounts closest to 0, closest first
closestToZero(data) == Take(SelectSeq(sortedAccounts(data), isNegativeSale), 5)

\* the negative accounts alone, without the padding of lines 386-392
negativeAccountsOnly(data) ==
  Reverse(TakeLast(SelectSeq(sortedAccounts(data), isNegativeSale), 5))

leastPerformingAccounts(data) ==
  LET padded(sorted, negative) ==
        IF Len(negative) < 5 /\ Len(sorted) > 0
          THEN negative \o Reverse(TakeLast(SelectSeq(sorted, isNonNegativeSale),
                                             5 - Len(negative)))
          ELSE negative
      of(sorted) == padded(sorted, Reverse(TakeLast(SelectSeq(sorted, isNegativeSale), 5)))
  IN  of(sortedAccounts(data))

\* the source text the traffic-source rollup classifies
sourceOf(account) ==
  normalizeTrafficSource(Or(account.AnalyticsSource, Or(account.LatestSource, "Unknown")))

isSQL(account) == toLowerCase(account.LifecycleStage) = "salesqualifiedlead"

\* the body of the traffic-source pass
trafficRow(acc, account) == addLead(acc, sourceOf(account), parseCurrency(account.TotalSales))

\* the traffic-source pass and the per-source averages and conversion rates
trafficSourcePerformance(data) ==
  LET entry(sourceData, sourceAccounts) ==
        [leads |-> sourceData.leads, revenue |-> sourceData.revenue,
         avgDealSize |-> IF sourceData.leads > 0
                           THEN Ratio(sourceData.revenue, sourceData.leads)
                           ELSE Ratio(Zero, 1),
         conversionRate |-> IF Len(sourceAccounts) > 0
                              THEN Ratio(Len(SelectSeq(sourceAccounts, isSQL)) * 100,
                                         Len(sourceAccounts))
                              ELSE Ratio(0, 1)]
      Of(first, source) ==
        LET InSource(account) == sourceOf(account) = source
        IN  entry(first[source], SelectSeq(data, InSource))
      all(first) == [source \in DOMAIN first |-> Of(first, source)]
  IN  all(FoldLeft(trafficRow, EmptyDict, data))

\* the body of the geographic pass
geoRow(acc, account) ==
  LET orUnknown(state) == IF state # "" THEN state ELSE "Unknown"
  IN  addLead(acc, orUnknown(stateMatch(Or(account.Address, "Unknown"))),
              parseCurrency(account.TotalSales))

geographicDistribution(data) == FoldLeft(geoRow, EmptyDict, data)

\* Number(text): the trimmed text read whole as a decimal literal
\* ([+-] digits [. digits] | [+-] Infinity), 0 for an empty text and NaN for any
\* other text; exponent and radix-prefixed literals are not read.
toNumber(text) ==
  LET literal(t, body, n, f, dot) ==
        IF body = "Infinity" \/ (n + dot + f = Len(body) /\ n + f > 0)
          THEN parseFloat(t) ELSE NaN
      fraction(t, body, n, rest) ==
        IF rest # "" /\ Head(rest) = "."
          THEN literal(t, body, n, LeadingDigits(Tail(rest)), 1)
          ELSE literal(t, body, n, 0, 0)
      whole(t, body, n) == fraction(t, body, n, Slice(body, n + 1, Len(body)))
      unsigned(t, body) == whole(t, body, LeadingDigits(body))
      of(t) ==
        IF t = "" THEN Finite(Zero)
        ELSE unsigned(t, IF Head(t) \in {"-", "+"} THEN Tail(t) ELSE t)
  IN  of(trim(text))

\* Number(text || 0) > n: false when the text is no number (NaN)
visitsAbove(text, n) ==
  LET above(visits) ==
        visits = Infinity \/ (isFinite(visits) /\ Lt(Units(n), visits.val))
  IN  above(toNumber(text))

\* a score handed on as it was computed
unclamped(score) == score

\* Math.max(0, Math.min(100, score))
clampScore(score) == IF score > 100 THEN 100 ELSE IF score < 0 THEN 0 ELSE score

calculateLeadHealthScore(account) ==
  LET s1(source) ==
        IF includes(source, "Organic Search") THEN 15
        ELSE IF includes(source, "Paid Search") THEN 10
        ELSE IF includes(source, "Referral") THEN 20
        ELSE 0
      s2 == IF visitsAbove(account.NumberOfVisits, 5) THEN 15
            ELSE IF visitsAbove(account.NumberOfVisits, 2) THEN 10
            ELSE 0
      s3(stage) ==
        IF stage = "salesqualifiedlead" THEN 25
        ELSE IF stage = "marketingqualifiedlead" THEN 15
        ELSE IF stage = "customer" THEN 30
        ELSE 0
  IN  clampScore(50 + s1(Or(account.AnalyticsSource, "Unknown")) + s2
                    + s3(toLowerCase(account.LifecycleStage)))

\* the labels are kept without their leading emoji
getLeadTemperature(healthScore) ==
  IF healthScore >= 80 THEN "Hot"
  ELSE IF healthScore >= 60 THEN "Warm"
  ELSE IF healthScore >= 40 THEN "Cool"
  ELSE "Cold"

\* new Date(text) does not throw: an invalid date makes daysSinceCreated NaN
\* and both comparisons false.  `now` is later than 00:00 of its day, so the
\* age exceeds n days as soon as the calendar days differ by n.
getLeadRiskLevel(account, now) ==
  LET level(valid, days) ==
        IF valid /\ days >= 60 THEN "High Risk"
        ELSE IF valid /\ days >= 30 THEN "Medium Risk"
        ELSE "Low Risk"
      of(createDate) == level(createDate.valid, DayNumber(now) - DayNumber(createDate))
  IN  IF account.DateCreated = "" \/ account.DateCreated = "N/A" THEN "Unknown"
      ELSE of(newDate(account.DateCreated))

scoreBefore(a, b) == a.healthScore > b.healthScore

leadHealthScores(data, now) ==
  LET entry(account, healthScore) ==
        [accountId   |-> account.AccountID,
         accountName |-> account.AccountName,
         healthScore |-> healthScore,
         temperature |-> getLeadTemperature(healthScore),
         riskLevel   |-> getLeadRiskLevel(account, now)]
  IN  StableSort(scoreBefore,
                 [i \in 1..Len(data) |-> entry(data[i], calculateLeadHealthScore(data[i]))])

\* the body of the campaign pass
campaignRow(acc, account) ==
  LET of(campaign) ==
        IF campaign # "" /\ trim(campaign) # "" /\ campaign # "Unknown Campaign"
          THEN addLead(acc, campaign, parseCurrency(account.TotalSales))
          ELSE acc
  IN  of(Or(account.LastTouchCampaign, Or(account.FirstTouchCampaign, "")))

campaignPerformance(data) == FoldLeft(campaignRow, EmptyDict, data)

\* the body of the landing-page pass (both branches of its try/catch)
landingRow(acc, account) ==
  LET add(page, cur) ==
        Put(acc, page,
            [leads    |-> cur.leads + 1,
             revenue  |-> Add(cur.revenue, parseCurrency(account.TotalSales)),
             sqlCount |-> IF isSQL(account) THEN cur.sqlCount + 1 ELSE cur.sqlCount])
      of(page) ==
        add(page, IF page \in DOMAIN acc THEN acc[page]
                  ELSE [leads |-> 0, revenue |-> Zero, sqlCount |-> 0])
  IN  IF account.FirstURL # "" /\ trim(account.FirstURL) # ""
        THEN of(pageNameOf(account.FirstURL))
        ELSE acc

landingPagePerformance(data) ==
  LET entry(pageData) ==
        [leads |-> pageData.leads, revenue |-> pageData.revenue,
         sqlCount |-> pageData.sqlCount,
         avgDealSize |-> IF pageData.leads > 0
                           THEN Ratio(pageData.revenue, pageData.leads)
                           ELSE Ratio(Zero, 1),
         conversionRate |-> IF pageData.leads > 0
                              THEN Ratio(pageData.sqlCount * 100, pageData.leads)
                              ELSE Ratio(0, 1)]
      all(first) == [page \in DOMAIN first |-> entry(first[page])]
  IN  all(FoldLeft(landingRow, EmptyDict, data))

\* d[k] = (d[k] || 0) + 1 on a dictionary kept as entries
bump(es, k) ==
  LET at(i) == IF i = 0 THEN Append(es, [key |-> k, val |-> 1])
               ELSE [es EXCEPT ![i].val = @ + 1]
  IN  at(KeyIndex(es, k))

\* Object.entries: the integer-like keys in ascending order, then the other
\* keys in insertion order
objectEntries(es) ==
  LET IsIndex(e)  == AllDigits(e.key)
      NotIndex(e) == ~AllDigits(e.key)
      IndexBefore(a, b) == IntOf(a.key) < IntOf(b.key)
  IN  StableSort(IndexBefore, SelectSeq(es, IsIndex)) \o SelectSeq(es, NotIndex)

\* String(date.getHours()): the date texts carry no time of day, so a valid
\* date is at hour 0; an invalid date has hour NaN
hourKeyOf(date) == IF date.valid THEN ToString(0) ELSE "NaN"

hourRow(es, account) ==
  IF account.DateCreated # "" /\ account.DateCreated # "N/A"
    THEN bump(es, hourKeyOf(newDate(account.DateCreated)))
    ELSE es

countBefore(a, b) == a.val > b.val

\* each entry is [key: the hour as Number(hour) prints it, val: the activity]
peakActivityHours(data) ==
  Take(StableSort(countBefore, objectEntries(FoldLeft(hourRow, <<>>, data))), 5)

MonthShort ==
  <<"Jan", "Feb", "Mar", "Apr", "May", "Jun", "Jul", "Aug", "Sep", "Oct", "Nov", "Dec">>

\* date.toLocaleDateString("en-US", {month: "short", year: "numeric"})
seasonKeyOf(date) ==
  IF date.valid THEN MonthShort[getMonth(date) + 1] \o " " \o ToString(getFullYear(date))
  ELSE "Invalid Date"

\* new Date(month).getTime() for a season key, as year * 100 + month; NaN is 0
seasonTime(label) ==
  LET of(hits) ==
        IF hits = {} THEN 0 ELSE IntOf(Slice(label, 5, 8)) * 100 + (CHOOSE m \in hits : TRUE)
  IN  of({m \in 1..12 : MonthShort[m] = Slice(label, 1, 3)})

seasonRow(es, account) ==
  LET add(key, at, revenue) ==
        IF at = 0
          THEN Append(es, [key |-> key, leads |-> 1, revenue |-> revenue])
          ELSE [es EXCEPT ![at].leads = @ + 1, ![at].revenue = Add(@, revenue)]
      of(key) == add(key, KeyIndex(es, key), parseCurrency(account.TotalSales))
  IN  IF account.DateCreated # "" /\ account.DateCreated # "N/A"
        THEN of(seasonKeyOf(newDate(account.DateCreated)))
        ELSE es

\* a comparator result of NaN counts as 0: neither side goes first
seasonBefore(a, b) ==
  LET before(ta, tb) == ta # 0 /\ tb # 0 /\ ta < tb
  IN  before(seasonTime(a.key), seasonTime(b.key))

seasonalTrends(data) == StableSort(seasonBefore, FoldLeft(seasonRow, <<>>, data))

repRow(es, account) == bump(es, Or(account.PrimaryRepName, "Unknown"))

responseTimeMetrics(data) ==
  LET metrics(names) ==
        [avgResponseTime |-> 24,
         fastResponders  |-> Take(names, 3),
         slowResponders  |-> TakeLast(names, 2)]
      of(sortedReps) == metrics([i \in 1..Len(sortedReps) |-> sortedReps[i].key])
  IN  of(StableSort(countBefore, objectEntries(FoldLeft(repRow, <<>>, data))))

\* mutant of totalAccountsOf: the rows the first pass leaves out are not
\* counted
notCounted(row) == skipsRow(parseCurrency(row.TotalSales))

totalAccountsCounted(data) == Len(data) - Len(SelectSeq(data, notCounted))

\* totalAccounts: data.length
totalAccountsOf(data) == Len(data)

processAccountDataInternal(data, now) ==
  LET snapshot(main) ==
        [totalAccounts |-> totalAccountsOf(data),
         totalRevenue |-> main.totalSalesValue,
         averageDealSize |-> calculateAverage(main.validSales),
         salesByRep |-> main.salesByRep,
         salesDistribution |-> main.salesDistribution,
         monthlyTrends |-> monthlyTrends(data),
         topStates |-> main.topStates,
         recentlyQuoted |-> main.recentlyQuoted,
         salesByBrand |-> main.salesByBrand,
         topPerformingAccounts |-> topPerformingAccounts(data),
         leastPerformingAccounts |-> leastPerformingAccounts(data),
         allAccounts |-> data,
         lifecycleStageDistribution |-> main.lifecycleStageDistribution,
         trafficSourcePerformance |-> trafficSourcePerformance(data),
         geographicDistribution |-> geographicDistribution(data),
         leadHealthScores |-> leadHealthScores(data, now),
         campaignPerformance |-> campaignPerformance(data),
         timeBasedInsights |->
           [peakActivityHours |-> peakActivityHours(data),
            seasonalTrends |-> seasonalTrends(data),
            responseTimeMetrics |-> responseTimeMetrics(data)],
         landingPagePerformance |-> landingPagePerformance(data)]
  IN  snapshot(mainLoop(data, now))

(***************************************************************************)
(* transformHubSpotDataToAccountData.                                      *)
(* A contact is a record of its id, the properties the pipeline reads and  *)
(* `companies`, the ids of its associated companies                        *)
(* (associations.companies.results).  companiesMap and ownersMap are       *)
(* functions from the ids that were fetched to the company / owner.        *)
(***************************************************************************)
\* parseInt(text): the integer of the longest digit prefix after leading
\* whitespace and a sign, NaN when there is none
parseInt(text) ==
  LET digits(neg, body, n) ==
        [nan |-> n = 0,
         n |-> IF neg THEN 0 - IntOf(Slice(body, 1, n)) ELSE IntOf(Slice(body, 1, n))]
      unsigned(neg, body) == digits(neg, body, LeadingDigits(body))
      of(t) == unsigned(t # "" /\ Head(t) = "-",
                        IF t # "" /\ Head(t) \in {"-", "+"} THEN Tail(t) ELSE t)
  IN  of(trimStart(text))

\* contact.associations?.companies?.results?.[0]?.id, "" when there is none
firstCompanyId(contact) ==
  IF Len(contact.companies) > 0 THEN contact.companies[1] ELSE ""

\* [a, b, ...].filter(Boolean).join(", ")
RECURSIVE joinNonEmpty(_)
joinNonEmpty(parts) ==
  IF parts = <<>> THEN ""
  ELSE LET rest == joinNonEmpty(Tail(parts))
       IN  IF Head(parts) = "" THEN rest
           ELSE IF rest = "" THEN Head(parts)
           ELSE Head(parts) \o ", " \o rest

\* the fixed estimate of a lifecycle stage (the switch of lines 166-186)
\* the default estimate for every stage
defaultLeadValue(lifecycleStage) == "1000"

leadValueOf(lifecycleStage) ==
  LET stage == toLowerCase(lifecycleStage) IN
  IF stage = "customer" THEN "25000"
  ELSE IF stage \in {"salesqualifiedlead", "sql"} THEN "10000"
  ELSE IF stage \in {"marketingqualifiedlead", "mql"} THEN "5000"
  ELSE IF stage = "lead" THEN "2000"
  ELSE IF stage = "subscriber" THEN "500"
  ELSE "1000"

\* the filter callback of transformHubSpotDataToAccountData
passesTransformFilter(contact, companiesMap, startDate, endDate) ==
  LET outside(createdDate) ==
        /\ createdDate.valid
        /\ \/ startDate # NoDate /\ DateLt(createdDate, startDate)
           \/ endDate # NoDate /\ DateLt(endDate, createdDate)
      dated(createdDateStr) ==
        ~ /\ startDate # NoDate \/ endDate # NoDate
          /\ createdDateStr # ""
          /\ outside(newDate(createdDateStr))
      of(companyId) ==
        dated(IF contact.createdate # "" THEN contact.createdate
              ELSE IF companyId # "" /\ companyId \in DOMAIN companiesMap
                     THEN companiesMap[companyId].createdate
              ELSE "")
  IN  of(firstCompanyId(contact))

\* the map callback of transformHubSpotDataToAccountData; the ids of the
\* model are numbers other than 0, so `|| Math.floor(Math.random() * 1000000)`
\* is not taken
accountOfContact(contact, companiesMap, ownersMap) ==
  LET account(hasCompany, company, hasOwner, owner, contactName, lifecycleStage) ==
        [AccountID |-> parseInt(IF hasCompany THEN company.id ELSE contact.id).n,
         AccountName |->
           Or(IF hasCompany THEN company.name ELSE "",
              Or(contact.company, Or(contactName, "Unknown Account"))),
         Address |->
           IF hasCompany
             THEN Or(trim(joinNonEmpty(<<company.address, company.city, company.state,
                                         company.zip>>)), "N/A")
             ELSE Or(trim(joinNonEmpty(<<contact.city, contact.state, contact.country>>)),
                     "N/A"),
         TotalSales |-> leadValueOf(lifecycleStage),
         DateCreated |->
           IF contact.createdate # "" THEN toLocaleDateString(newDate(contact.createdate))
           ELSE IF hasCompany /\ company.createdate # ""
             THEN toLocaleDateString(newDate(company.createdate))
           ELSE "N/A",
         DateLastQuoted |->
           IF contact.lastmodifieddate # ""
             THEN toLocaleDateString(newDate(contact.lastmodifieddate))
             ELSE "N/A",
         PrimaryRepName |->
           IF hasOwner THEN Or(trim(owner.firstName \o " " \o owner.lastName), "N/A")
           ELSE "N/A",
         LifecycleStage |-> lifecycleStage,
         AnalyticsSource |-> Or(contact.hs_analytics_source, "Unknown"),
         LatestSource |-> Or(contact.hs_latest_source, "Unknown"),
         FirstTouchCampaign |-> contact.hs_analytics_first_touch_converting_campaign,
         LastTouchCampaign |-> contact.hs_analytics_last_touch_converting_campaign,
         FirstURL |-> contact.hs_analytics_first_url,
         NumberOfVisits |-> Or(contact.hs_analytics_num_visits, "0")]
      of(companyId, ownerId) ==
        account(companyId # "" /\ companyId \in DOMAIN companiesMap,
                companiesMap[companyId],
                ownerId # "" /\ ownerId \in DOMAIN ownersMap,
                ownersMap[ownerId],
                trim(contact.firstname \o " " \o contact.lastname),
                Or(contact.lifecyclestage, "unknown"))
  IN  of(firstCompanyId(contact), contact.hubspot_owner_id)

transformHubSpotDataToAccountData(contacts, companiesMap, ownersMap, startDate, endDate) ==
  LET Keeps(contact) == passesTransformFilter(contact, companiesMap, startDate, endDate)
      accounts(kept) ==
        [i \in 1..Len(kept) |-> accountOfContact(kept[i], companiesMap, ownersMap)]
  IN  accounts(SelectSeq(contacts, Keeps))

(***************************************************************************)
(* processCSVData: the flat-file adapter.                                  *)
(* The file is [readable, header, rows]: whether readFileSync succeeds,    *)
(* whether it has a first non-blank line (the header), and its other       *)
(* non-blank lines, each already split into its fields (parseCSVLine) and  *)
(* named by the header, with `short` telling that the line has fewer       *)
(* fields than the header.                                                 *)
(***************************************************************************)
determineLifecycleStage(salesAmount) ==
  IF Lt(Units(50000), salesAmount) THEN "customer"
  ELSE IF Lt(Units(10000), salesAmount) THEN "salesqualifiedlead"
  ELSE IF Lt(Zero, salesAmount) THEN "marketingqualifiedlead"
  ELSE "lead"

\* the Date of a "Date Created" cell: null (NoDate) unless the cell has a
\* month, a day and a year part; new Date(parseInt(year), parseInt(month) - 1,
\* parseInt(day)) is invalid when a part is no number (the parts that are
\* numbers are a four-digit year, a month of 1..12 and a day of that month)
csvAccountDate(dateCreated) ==
  LET date(y, m, d) ==
        IF y.nan \/ m.nan \/ d.nan THEN InvalidDate ELSE DateOf(y.n, m.n, d.n)
      parts(month, day, year) ==
        IF dateCreated = "" \/ month = "" \/ day = "" \/ year = "" THEN NoDate
        ELSE date(parseInt(year), parseInt(month), parseInt(day))
      split2(i1, r1, i2) ==
        parts(IF i1 = 0 THEN dateCreated ELSE Slice(dateCreated, 1, i1 - 1),
              IF i1 = 0 THEN "" ELSE IF i2 = 0 THEN r1 ELSE Slice(r1, 1, i2 - 1),
              IF i1 = 0 \/ i2 = 0 THEN "" ELSE upTo(Slice(r1, i2 + 1, Len(r1)), {"/"}))
      split1(i1, r1) == split2(i1, r1, indexOf(r1, "/"))
      split(i1) == split1(i1, Slice(dateCreated, i1 + 1, Len(dateCreated)))
  IN  split(indexOf(dateCreated, "/"))

\* the row survives the date filtering of lines 57-61
csvRowInRange(row, startDate, endDate) ==
  LET inside(accountDate) ==
        /\ accountDate # NoDate
        /\ ~(startDate # NoDate /\ DateLt(accountDate, startDate))
        /\ ~(endDate # NoDate /\ DateLt(endDate, accountDate))
  IN  \/ startDate = NoDate /\ endDate = NoDate
      \/ inside(csvAccountDate(row.DateCreated))

csvAccountOf(row) ==
  LET account(accountDate, id) ==
        [AccountID |-> IF id.nan THEN 0 ELSE id.n,
         AccountName |-> Or(row.AccountName, "Unknown Account"),
         Address |-> Or(row.Address, "N/A"),
         TotalSales |-> Or(row.TotalSales, "$0"),
         DateCreated |->
           IF accountDate # NoDate THEN toLocaleDateString(accountDate) ELSE "N/A",
         DateLastQuoted |-> Or(row.DateLastQuoted, "N/A"),
         PrimaryRepName |-> Or(row.PrimaryRepName, "N/A"),
         LifecycleStage |-> determineLifecycleStage(parseCurrency(row.TotalSales)),
         AnalyticsSource |-> "", LatestSource |-> "", FirstTouchCampaign |-> "",
         LastTouchCampaign |-> "", FirstURL |-> "", NumberOfVisits |-> ""]
  IN  account(csvAccountDate(row.DateCreated), parseInt(row.AccountID))

\* the accounts processCSVData builds and hands to processAccountDataInternal
csvAccounts(file, startDate, endDate) ==
  LET Keeps(row) == ~row.short /\ csvRowInRange(row, startDate, endDate)
      accounts(kept) == [i \in 1..Len(kept) |-> csvAccountOf(kept[i])]
  IN  accounts(SelectSeq(file.rows, Keeps))

\* processCSVData throws (readFileSync fails, or lines[0] is undefined)
csvThrows(file) == ~file.readable \/ ~file.header

processCSVData(file, startDate, endDate, now) ==
  processAccountDataInternal(csvAccounts(file, startDate, endDate), now)

(***************************************************************************)
(* fetchAndProcessHubSpotData: the pure parts.                             *)
(***************************************************************************)
\* maxPages of the three pagination loops
SearchMaxPages == 500

FallbackMaxPages == 200

BasicMaxPages == 500

\* mutant of apiKeyOf: the value is not trimmed
apiKeyUntrimmed(env) == IF env.set THEN env.value ELSE ""

\* process.env.HUBSPOT_API_KEY?.trim(); "" stands for undefined as well, both
\* are falsy in `if (!apiKey)`
apiKeyOf(env) == IF env.set THEN trim(env.value) ELSE ""

\* startDate && startDate.getFullYear() >= 2025 (an invalid Date has the
\* year NaN, and NaN >= 2025 is false)
usesSearchApi(startDate) ==
  startDate # NoDate /\ startDate.valid /\ getFullYear(startDate) >= 2025

\* one page of `list` from the offset `after`: its results and the cursor
\* paging.next.after, 0 when the response has none.  A remote that is
\* `always` answering with a cursor does so past the end of the list too,
\* with pages of no results
pageOf(list, after, limit, always) ==
  LET page(last) ==
        [results |-> SubSeq(list, after + 1, last),
         next |-> IF last < Len(list) \/ always THEN after + limit ELSE 0]
  IN  page(IF after + limit < Len(list) THEN after + limit ELSE Len(list))

\* mutant of morePages: the loop goes on as long as there is a cursor
morePagesUncapped(cursor, pageCount, maxPages) == cursor # 0

\* the loop conditions of lines 693, 727 and 760:
\* while (after && pageCount < maxPages)
morePages(cursor, pageCount, maxPages) == cursor # 0 /\ pageCount < maxPages

\* what the search request of lines 673-684 matches: the contacts created at
\* or after startDate; the request asks for no associations, so the results
\* carry none
searchMatches(remote, startDate) ==
  LET since(created) == created.valid /\ ~DateLt(created, startDate)
      Matches(contact) == since(newDate(contact.createdate))
      bare(found) == [i \in 1..Len(found) |-> [found[i] EXCEPT !.companies = <<>>]]
  IN  bare(SelectSeq(remote, Matches))

\* mutant of afterFailedPage: a failed getPage is swallowed and the run goes
\* on with the contacts it has
afterFailedPageContinues(api) == IF api = "search" THEN "fallback" ELSE "filter"

\* the pc after a page request has thrown: a failed search is caught at line
\* 697 and goes on with basic pagination, a failed getPage is caught at line
\* 927 and ends the run
afterFailedPage(api) == IF api = "search" THEN "fallback" ELSE "done"

QualifiedStages == {"salesqualifiedlead", "marketingqualifiedlead", "sql", "mql"}

QualifiedStatuses == {"sales qualified lead", "marketing qualified lead", "sql", "mql"}

isQualifiedLead(contact) ==
  \/ toLowerCase(contact.lifecyclestage) \in QualifiedStages
  \/ toLowerCase(contact.lead_status) \in QualifiedStatuses
  \/ toLowerCase(contact.hs_lead_status) \in QualifiedStatuses

qualifiedLeads(allContacts) == SelectSeq(allContacts, isQualifiedLead)

\* mutant of filteredLeads: a contact without createdate is kept
filteredLeadsKeepsUndated(qualified, startDate, endDate) ==
  LET inside(contactDate) ==
        /\ contactDate.valid
        /\ ~(startDate # NoDate /\ DateLt(contactDate, startDate))
        /\ ~(endDate # NoDate /\ DateLt(endDate, contactDate))
      Keeps(contact) == contact.createdate = "" \/ inside(newDate(contact.createdate))
  IN  IF startDate # NoDate \/ endDate # NoDate THEN SelectSeq(qualified, Keeps)
      ELSE qualified

\* the date filtering of lines 870-889
filteredLeads(qualified, startDate, endDate) ==
  LET inside(contactDate) ==
        /\ contactDate.valid
        /\ ~(startDate # NoDate /\ DateLt(contactDate, startDate))
        /\ ~(endDate # NoDate /\ DateLt(endDate, contactDate))
      Keeps(contact) == contact.createdate # "" /\ inside(newDate(contact.createdate))
  IN  IF startDate # NoDate \/ endDate # NoDate THEN SelectSeq(qualified, Keeps)
      ELSE qualified

\* Set.add, in insertion order
addId(ids, id) ==
  IF \E i \in 1..Len(ids) : ids[i] = id THEN ids ELSE Append(ids, id)

addIds(ids, more) == FoldLeft(addId, ids, more)

\* Array.from(companyIds) and Array.from(ownerIds) after lines 895-898
companyIdsOf(contacts) ==
  LET Step(ids, contact) == addIds(ids, contact.companies)
  IN  FoldLeft(Step, <<>>, contacts)

\* mutant of ownerIdsOf: an array instead of a Set, an owner is looked up once
\* for each of its contacts
ownerIdsWithRepeats(contacts) ==
  LET Step(ids, contact) ==
        IF contact.hubspot_owner_id # "" THEN Append(ids, contact.hubspot_owner_id) ELSE ids
  IN  FoldLeft(Step, <<>>, contacts)

ownerIdsOf(contacts) ==
  LET Step(ids, contact) ==
        IF contact.hubspot_owner_id # "" THEN addId(ids, contact.hubspot_owner_id) ELSE ids
  IN  FoldLeft(Step, <<>>, contacts)

\* what `return` hands back when the function ends in its catch
Null == [null |-> TRUE]

\* the function has thrown the error with this message
Thrown ==
  [threw |-> "HubSpot API key (HUBSPOT_API_KEY) is not configured in environment variables."]

\* mutant of csvFallback: the date range is not handed on
csvFallbackUndated(file, startDate, endDate, now) ==
  IF csvThrows(file) THEN Null ELSE processCSVData(file, NoDate, NoDate, now)

\* `return processCSVData(startDate, endDate)` of line 794, inside the try:
\* the error the adapter throws is caught at line 927
csvFallback(file, startDate, endDate, now) ==
  IF csvThrows(file) THEN Null ELSE processCSVData(file, startDate, endDate, now)

(***************************************************************************)
(* State.                                                                  *)
(***************************************************************************)
VARIABLES
  data,         \* the account collection handed to processAccountDataInternal
                \*   (the call made, under SpecCalls)
  now,          \* the clock reading (new Date(), Date.now()) of the run
  processed,    \* what the run returned: Pending until it returns
  apiKeyEnv,    \* process.env.HUBSPOT_API_KEY: [set, value]
  startDate,    \* the arguments of fetchAndProcessHubSpotData, NoDate when
  endDate,      \*   left out
  remote,       \* the contacts of the remote CRM, in the order it pages them
  endless,      \* whether every page response of the remote carries a cursor
  csvFile,      \* public/comma delimited.csv
  pc,           \* where fetchAndProcessHubSpotData stands
  after,        \* the cursor of the running pagination loop, 0 for undefined
  pageCount,    \* the pageCount of the running pagination loop
  allContacts,  \* the contacts pushed so far
  contacts,     \* the qualified contacts in the date range
  companyIds,   \* the company ids still to look up
  ownerIds,     \* the owner ids still to look up
  companiesMap, \* the companies fetched
  ownersMap,    \* the owners fetched
  calls,        \* how many requests of each kind were issued
  faults,       \* which page requests have failed
  processedData, \* the state processedData of the page, Null until a sync stores
  error,        \* the state error of the page, "" for null
  syncs         \* the transitions the page has started, in order: the pending
                \*   ones with the arguments of their request

fetchVars ==
  <<apiKeyEnv, startDate, endDate, remote, endless, csvFile, pc, after, pageCount,
    allContacts, contacts, companyIds, ownerIds, companiesMap, ownersMap, calls, faults>>

homeVars == <<processedData, error, syncs>>

vars == <<data, now, processed, fetchVars, homeVars>>

\* no value yet
Pending == [pending |-> TRUE]

(***************************************************************************)
(* The aggregation engine on its own: any collection of up to MaxAccounts  *)
(* accounts drawn from AccountPool is aggregated in one call.              *)
(***************************************************************************)
Account(id, name, address, sales, created, quoted, rep, stage, source, latest, firstCampaign, lastCampaign, firstUrl, visits) ==
  [AccountID |-> id, AccountName |-> name, Address |-> address, TotalSales |-> sales,
   DateCreated |-> created, DateLastQuoted |-> quoted, PrimaryRepName |-> rep,
   LifecycleStage |-> stage, AnalyticsSource |-> source, LatestSource |-> latest,
   FirstTouchCampaign |-> firstCampaign, LastTouchCampaign |-> lastCampaign,
   FirstURL |-> firstUrl, NumberOfVisits |-> visits]

AccountPool ==
  { Account(1, "Acme Supply", "1 Main St, Columbus, OH 43215", "$1,200.50", "6/15/2025",
            "6/20/2025", "Ann Lee", "salesqualifiedlead", "ORGANIC_SEARCH", "", "",
            "Spring Promo", "https://shop.example/pricing", "7"),
    Account(2, "Zeta Corp", "N/A", "-50", "N/A", "N/A", "", "", "", "PAID_SOCIAL",
            "Launch", "", "", ""),
    Account(3, "Bolt Works", "Austin, TX 73301", "1000000000000", "5/2/2025", "1/5/2025",
            "Bob Ray", "customer", "Referral", "", "", "", "not a url", "3"),
    Account(4, "ACME Supply", "9 Elm St, Dayton, OH 45402", "2000000000000", "6/1/2025",
            "6/30/2025", "Ann Lee", "salesqualifiedlead", "ORGANIC_SEARCH", "", "",
            "Spring Promo", "https://shop.example/pricing", "1"),
    Account(5, "The Works", "", "abc", "Invalid Date", "", "Bob Ray", "lead", "", "", "",
            "Unknown Campaign", "https://shop.example", "x"),
    Account(6, "Orbit LLC", "Reno, NV 89501-1234", "-3000000000000", "12/9/2024",
            "N/A", "Cy Dee", "Opportunity", "Paid Search", "", "Winter", "", "", "4"),
    Account(7, "Indoff, Inc", "Akron, OH", "25,000", "6/3/2025", "4/2/2025", "Cy Dee",
            "customer", "Organic Search", "", "", "", "https://shop.example/blog/a", "9") }

Clock == {DateOf(2025, 7, 1)}

RECURSIVE SeqsUpTo(_, _)
SeqsUpTo(S, n) ==
  IF n = 0 THEN {<<>>}
  ELSE LET shorter == SeqsUpTo(S, n - 1)
       IN  shorter \cup {Append(q, x) : q \in {r \in shorter : Len(r) = n - 1}, x \in S}

NoCalls == [search |-> 0, page |-> 0, company |-> 0, owner |-> 0, csv |-> 0]

NoFaults == [search |-> FALSE, page |-> FALSE, kept |-> 0]

NoFile == [readable |-> FALSE, header |-> FALSE, rows |-> <<>>]

\* the fetch pipeline is not running
FetchIdle ==
  /\ apiKeyEnv = [set |-> FALSE, value |-> ""]
  /\ startDate = NoDate /\ endDate = NoDate
  /\ remote = <<>> /\ endless = FALSE /\ csvFile = NoFile
  /\ pc = "idle" /\ after = 0 /\ pageCount = 0
  /\ allContacts = <<>> /\ contacts = <<>>
  /\ companyIds = <<>> /\ ownerIds = <<>>
  /\ companiesMap = EmptyDict /\ ownersMap = EmptyDict
  /\ calls = NoCalls /\ faults = NoFaults

\* the page is not mounted
HomeIdle == processedData = Null /\ error = "" /\ syncs = <<>>

AggInit ==
  /\ data \in SeqsUpTo(AccountPool, MaxAccounts)
  /\ now \in Clock
  /\ processed = Pending
  /\ FetchIdle
  /\ HomeIdle

\* one call of processAccountDataInternal(data)
Aggregate ==
  /\ processed = Pending
  /\ pc = "idle"
  /\ processed' = processAccountDataInternal(data, now)
  /\ UNCHANGED <<data, now, fetchVars, homeVars>>

AggNext == Aggregate

SpecAgg == AggInit /\ [][AggNext]_vars

(***************************************************************************)
(* The ranked lists of the aggregation engine.  The collections are the    *)
(* accounts of RankPool, each at most once and in any order, and the       *)
(* collections of up to MaxLosses of its loss-making accounts: long enough *)
(* for the cuts at 5 of lines 381-389, with equal parsed sales values on   *)
(* distinct accounts, and with source texts that name several sources.     *)
(***************************************************************************)
MaxLosses == 7

RankedAccount(id, name, sales, stage, source, visits) ==
  Account(id, name, "", sales, "N/A", "N/A", "", stage, source, "", "", "", "", visits)

RankPool ==
  { RankedAccount(11, "Delta Freight", "-50", "lead", "Referral", "1"),
    RankedAccount(12, "Echo Mills", "-$50.00", "customer", "Organic Search / Referral", "6"),
    RankedAccount(13, "Fargo Tools", "-7", "", "Paid Search Referral", "3"),
    RankedAccount(14, "Gale Paper", "0", "subscriber", "Paid Search, Organic Search", ""),
    RankedAccount(15, "Hale Foods", "100", "marketingqualifiedlead", "", "2.5"),
    RankedAccount(16, "Ivy Labs", "$100", "SalesQualifiedLead", "Direct Traffic", " 12 ") }

\* the sequences of distinct members of S
RECURSIVE Arrangements(_)
Arrangements(S) ==
  {<<>>} \cup UNION {{<<x>> \o q : q \in Arrangements(S \ {x})} : x \in S}

RankInit ==
  /\ data \in Arrangements(RankPool)
               \cup SeqsUpTo({account \in RankPool : isNegativeSale(account)}, MaxLosses)
  /\ now \in Clock
  /\ processed = Pending
  /\ FetchIdle
  /\ HomeIdle

SpecRank == RankInit /\ [][AggNext]_vars

(***************************************************************************)
(* The helper functions on their own: one call of parseCurrency, of        *)
(* extractBrandFromAccountNameHS or of the estimated-value switch of the   *)
(* transformer.  Here `data` is the call, [call, input], and `processed`   *)
(* is [returned] once the call has returned.                               *)
(***************************************************************************)
CurrencyTexts ==
  {"", "0", "-0", "7", "+7", "-50", "$1,200.50", "-$50.00", " 25,000 ", "0.10", ".5", "5.",
   "12abc", "abc", "$", "N/A", "(50)", "--5", "-", ".", "Infinity", "-Infinity",
   "1000000000000", "$ 2,000,000,000,000.75"}

CurrencyNumbers ==
  {Finite(Zero), Finite(Units(-50)), Finite(Norm(0, 120050)), Finite(Norm(0, 7)),
   Finite(Norm(200 * 1000 * 1000, 75)), NaN, Infinity, NegInfinity}

AccountNames ==
  {"ACME Corp", "acme corp", "Zeta Corp", "zeta corp", "ZETA CORP", "Bolt Works",
   "bolt works", "The Works", "the works", "Indoff, Inc", "INDOFF, INC", "Orbit, LLC",
   "orbit, llc", "Inc", "inc", "An", "AN", "", "Quartz, Group", "QUARTZ, GROUP"}

LifecycleStages ==
  {"customer", "Customer", "salesqualifiedlead", "sql", "SQL", "marketingqualifiedlead",
   "mql", "lead", "LEAD", "subscriber", "Subscriber", "unknown", "opportunity",
   "evangelist", "other"}

CallOf(name, input) == [call |-> name, input |-> input]

CallInit ==
  /\ data \in {CallOf("parseCurrency", TextValue(t)) : t \in CurrencyTexts}
               \cup {CallOf("parseCurrency", NumberValue(x)) : x \in CurrencyNumbers}
               \cup {CallOf("parseCurrency", NullValue),
                     CallOf("parseCurrency", UndefinedValue)}
               \cup {CallOf("extractBrandFromAccountNameHS", TextValue(n)) : n \in AccountNames}
               \cup {CallOf("leadValue", TextValue(stage)) : stage \in LifecycleStages}
  /\ now \in Clock
  /\ processed = Pending
  /\ FetchIdle
  /\ HomeIdle

CallParseCurrency ==
  /\ processed = Pending
  /\ data.call = "parseCurrency"
  /\ processed' = [returned |-> parseCurrencyValue(data.input)]
  /\ UNCHANGED <<data, now, fetchVars, homeVars>>

CallExtractBrand ==
  /\ processed = Pending
  /\ data.call = "extractBrandFromAccountNameHS"
  /\ processed' = [returned |-> extractBrandFromAccountNameHS(data.input.text)]
  /\ UNCHANGED <<data, now, fetchVars, homeVars>>

CallLeadValue ==
  /\ processed = Pending
  /\ data.call = "leadValue"
  /\ processed' = [returned |-> leadValueOf(data.input.text)]
  /\ UNCHANGED <<data, now, fetchVars, homeVars>>

CallNext == CallParseCurrency \/ CallExtractBrand \/ CallLeadValue

SpecCalls == CallInit /\ [][CallNext]_vars

(***************************************************************************)
(* fetchAndProcessHubSpotData as a state machine: one action per stretch   *)
(* of code between two awaits.  The remote CRM holds up to MaxContacts of   *)
(* the contacts of ContactPool and answers PageSize contacts a page (the   *)
(* `limit` of the requests); every request either answers or fails.        *)
(***************************************************************************)
MaxContacts == 3

PageSize == 1

Contact(id, firstname, lastname, company, lifecyclestage, lead_status, hs_lead_status, createdate, lastmodifieddate, owner, city, state, source, campaign, companies) ==
  [id |-> id, firstname |-> firstname, lastname |-> lastname, company |-> company,
   lifecyclestage |-> lifecyclestage, lead_status |-> lead_status,
   hs_lead_status |-> hs_lead_status, createdate |-> createdate,
   lastmodifieddate |-> lastmodifieddate, hubspot_owner_id |-> owner,
   city |-> city, state |-> state, country |-> "",
   hs_analytics_source |-> source, hs_latest_source |-> "",
   hs_analytics_first_touch_converting_campaign |-> campaign,
   hs_analytics_last_touch_converting_campaign |-> "",
   hs_analytics_first_url |-> "", hs_analytics_num_visits |-> "",
   companies |-> companies]

ContactPool ==
  << Contact("101", "Ann", "Ames", "", "salesqualifiedlead", "", "",
             "2025-06-15T10:00:00Z", "2025-06-20T08:00:00Z", "7", "Columbus", "OH",
             "ORGANIC_SEARCH", "Spring Promo", <<"900">>),
     Contact("102", "Bo", "Burke", "Burke Co", "lead", "", "",
             "2025-06-10T09:30:00Z", "", "", "", "", "", "", <<>>),
     Contact("103", "Cy", "Cole", "", "subscriber", "MQL", "",
             "2024-11-05T12:00:00Z", "2025-01-05T12:00:00Z", "8", "Austin", "TX",
             "PAID_SEARCH", "", <<"900", "901">>),
     [Contact("104", "", "", "", "", "", "Sales Qualified Lead",
              "", "", "7", "", "", "", "", <<"901">>)
        EXCEPT !.hs_latest_source = "SOCIAL_MEDIA"],
     Contact("105", "Di", "Dunn", "", "customer", "Open", "",
             "2025-03-03T00:00:00Z", "", "8", "", "", "REFERRALS", "", <<>>) >>

\* the companies and the owners the remote CRM has; a lookup of another id
\* fails
RemoteCompanies ==
  [id \in {"900"} |->
     [id |-> id, name |-> "Acme Supply", address |-> "1 Main St", city |-> "Columbus",
      state |-> "OH", zip |-> "43215", createdate |-> "2023-01-05T00:00:00Z"]]

RemoteOwners ==
  [id \in {"7", "8"} |->
     IF id = "7" THEN [firstName |-> "Bob", lastName |-> "Ray"]
     ELSE [firstName |-> "", lastName |-> ""]]

CsvRow(short, id, name, address, sales, created, quoted, rep) ==
  [short |-> short, AccountID |-> id, AccountName |-> name, Address |-> address,
   TotalSales |-> sales, DateCreated |-> created, DateLastQuoted |-> quoted,
   PrimaryRepName |-> rep]

CsvFiles ==
  { NoFile,
    [readable |-> TRUE, header |-> TRUE,
     rows |-> << CsvRow(FALSE, "11", "Acme Supply", "1 Main St, Columbus, OH 43215",
                        "$60,000.00", "06/15/2025", "06/20/2025", "Ann Lee"),
                 CsvRow(FALSE, "12", "", "", "500", "11/05/2024", "", ""),
                 CsvRow(TRUE, "13", "Short Row", "", "", "", "", ""),
                 CsvRow(FALSE, "x", "Bolt Works", "Austin, TX 73301", "", "soon", "", "Bob Ray"),
                 CsvRow(FALSE, "15", "Orbit LLC", "Reno, NV 89501", "$75.00", "Jun/15/2025",
                        "", "Cy Dee")
              >>] }

ApiKeys ==
  { [set |-> FALSE, value |-> ""], [set |-> TRUE, value |-> ""],
    [set |-> TRUE, value |-> "  "], [set |-> TRUE, value |-> " pat-na1 "] }

DateRanges ==
  { <<NoDate, NoDate>>,
    <<DateOf(2025, 6, 1), NoDate>>,
    <<DateOf(2025, 6, 1), DateOf(2025, 6, 12)>>,
    <<DateOf(2024, 1, 1), DateOf(2024, 12, 31)>> }

\* the elements of seq at the positions of S, in the order of seq
RECURSIVE pick(_, _, _)
pick(seq, S, i) ==
  IF i > Len(seq) THEN <<>>
  ELSE (IF i \in S THEN <<seq[i]>> ELSE <<>>) \o pick(seq, S, i + 1)

Remotes ==
  { pick(ContactPool, S, 1) :
      S \in {T \in SUBSET (1..Len(ContactPool)) : Cardinality(T) <= MaxContacts} }

Init ==
  /\ data = <<>>
  /\ now \in Clock
  /\ processed = Pending
  /\ apiKeyEnv \in ApiKeys
  /\ \E range \in DateRanges : startDate = range[1] /\ endDate = range[2]
  /\ remote \in Remotes
  /\ endless = FALSE
  /\ csvFile \in CsvFiles
  /\ pc = "start" /\ after = 0 /\ pageCount = 0
  /\ allContacts = <<>> /\ contacts = <<>>
  /\ companyIds = <<>> /\ ownerIds = <<>>
  /\ companiesMap = EmptyDict /\ ownersMap = EmptyDict
  /\ calls = NoCalls /\ faults = NoFaults
  /\ HomeIdle

\* lines 604-661: the key check, which throws outside the try, and the choice
\* of the pagination
Start ==
  /\ pc = "start"
  /\ IF apiKeyOf(apiKeyEnv) = ""
       THEN processed' = Thrown /\ pc' = "done"
       ELSE /\ processed' = processed
            /\ pc' = IF usesSearchApi(startDate) THEN "search" ELSE "basic"
  /\ UNCHANGED <<data, now, apiKeyEnv, startDate, endDate, remote, endless, csvFile, after,
                 pageCount, allContacts, contacts, companyIds, ownerIds, companiesMap,
                 ownersMap, calls, faults>>
  /\ UNCHANGED homeVars

\* one turn of the loop of lines 669-693, or its catch at 697-703
SearchPage ==
  /\ pc = "search"
  /\ \E ok \in BOOLEAN :
       IF ok
         THEN LET response == pageOf(searchMatches(remote, startDate), after,
                                     PageSize, endless)
              IN  /\ allContacts' = allContacts \o response.results
                  /\ after' = response.next
                  /\ pageCount' = pageCount + 1
                  /\ pc' = IF morePages(response.next, pageCount + 1, SearchMaxPages)
                             THEN "search" ELSE "filter"
                  /\ UNCHANGED <<faults, processed>>
         ELSE /\ pc' = afterFailedPage("search")
              /\ after' = 0
              /\ pageCount' = 0
              /\ faults' = [faults EXCEPT !.search = TRUE, !.kept = Len(allContacts)]
              /\ UNCHANGED <<allContacts, processed>>
  /\ calls' = [calls EXCEPT !.search = @ + 1]
  /\ UNCHANGED <<data, now, apiKeyEnv, startDate, endDate, remote, endless, csvFile, contacts,
                 companyIds, ownerIds, companiesMap, ownersMap>>
  /\ UNCHANGED homeVars

\* one turn of a getPage loop with the page cap maxPages; a failure is caught
\* at line 927
getPageTurn(maxPages) ==
  /\ \E ok \in BOOLEAN :
       IF ok
         THEN LET response == pageOf(remote, after, PageSize, endless)
              IN  /\ allContacts' = allContacts \o response.results
                  /\ after' = response.next
                  /\ pageCount' = pageCount + 1
                  /\ pc' = IF morePages(response.next, pageCount + 1, maxPages)
                             THEN pc ELSE "filter"
                  /\ UNCHANGED <<faults, processed>>
         ELSE /\ pc' = afterFailedPage("getPage")
              /\ processed' = IF pc' = "done" THEN Null ELSE processed
              /\ faults' = [faults EXCEPT !.page = TRUE]
              /\ UNCHANGED <<allContacts, after, pageCount>>
  /\ calls' = [calls EXCEPT !.page = @ + 1]
  /\ UNCHANGED <<data, now, apiKeyEnv, startDate, endDate, remote, endless, csvFile, contacts,
                 companyIds, ownerIds, companiesMap, ownersMap>>
  /\ UNCHANGED homeVars

\* one turn of the loop of lines 705-727
FallbackPage == pc = "fallback" /\ getPageTurn(FallbackMaxPages)

\* one turn of the loop of lines 738-760
BasicPage == pc = "basic" /\ getPageTurn(BasicMaxPages)

\* lines 763-898: the qualification filter, the return of the flat-file
\* snapshot when it leaves nothing, else the date filter and the ids to look up
FilterLeads ==
  /\ pc = "filter"
  /\ LET qualified == qualifiedLeads(allContacts)
     IN  IF Len(qualified) = 0
           THEN /\ processed' = csvFallback(csvFile, startDate, endDate, now)
                /\ data' = IF csvThrows(csvFile) THEN data
                           ELSE csvAccounts(csvFile, startDate, endDate)
                /\ calls' = [calls EXCEPT !.csv = @ + 1]
                /\ pc' = "done"
                /\ UNCHANGED <<contacts, companyIds, ownerIds>>
           ELSE /\ contacts' = filteredLeads(qualified, startDate, endDate)
                /\ companyIds' = companyIdsOf(contacts')
                /\ ownerIds' = ownerIdsOf(contacts')
                /\ pc' = "lookups"
                /\ UNCHANGED <<processed, data, calls>>
  /\ UNCHANGED <<now, apiKeyEnv, startDate, endDate, remote, endless, csvFile, after, pageCount,
                 allContacts, companiesMap, ownersMap, faults>>
  /\ UNCHANGED homeVars

\* one turn of the loop of lines 901-908
CompanyLookup ==
  /\ pc = "lookups"
  /\ companyIds # <<>>
  /\ LET id == Head(companyIds)
     IN  \E ok \in (IF id \in DOMAIN RemoteCompanies THEN BOOLEAN ELSE {FALSE}) :
           companiesMap' = IF ok THEN Put(companiesMap, id, RemoteCompanies[id])
                           ELSE companiesMap
  /\ companyIds' = Tail(companyIds)
  /\ calls' = [calls EXCEPT !.company = @ + 1]
  /\ UNCHANGED <<data, now, processed, apiKeyEnv, startDate, endDate, remote, endless, csvFile, pc,
                 after, pageCount, allContacts, contacts, ownerIds, ownersMap, faults>>
  /\ UNCHANGED homeVars

\* one turn of the loop of lines 911-918
OwnerLookup ==
  /\ pc = "lookups"
  /\ companyIds = <<>>
  /\ ownerIds # <<>>
  /\ LET id == Head(ownerIds)
     IN  \E ok \in (IF id \in DOMAIN RemoteOwners THEN BOOLEAN ELSE {FALSE}) :
           ownersMap' = IF ok THEN Put(ownersMap, id, RemoteOwners[id]) ELSE ownersMap
  /\ ownerIds' = Tail(ownerIds)
  /\ calls' = [calls EXCEPT !.owner = @ + 1]
  /\ UNCHANGED <<data, now, processed, apiKeyEnv, startDate, endDate, remote, endless, csvFile, pc,
                 after, pageCount, allContacts, contacts, companyIds, companiesMap, faults>>
  /\ UNCHANGED homeVars

\* lines 920-926
Finish ==
  /\ pc = "lookups"
  /\ companyIds = <<>>
  /\ ownerIds = <<>>
  /\ data' = transformHubSpotDataToAccountData(contacts, companiesMap, ownersMap,
                                               startDate, endDate)
  /\ processed' = processAccountDataInternal(data', now)
  /\ pc' = "done"
  /\ UNCHANGED <<now, apiKeyEnv, startDate, endDate, remote, endless, csvFile, after, pageCount,
                 allContacts, contacts, companyIds, ownerIds, companiesMap, ownersMap,
                 calls, faults>>
  /\ UNCHANGED homeVars

Next ==
  \/ Start
  \/ SearchPage
  \/ FallbackPage
  \/ BasicPage
  \/ FilterLeads
  \/ CompanyLookup
  \/ OwnerLookup
  \/ Finish

Spec == Init /\ [][Next]_vars

(***************************************************************************)
(* The pagination loops against a remote that may answer every page        *)
(* request with a cursor: past its last contact it then answers pages of   *)
(* no results.  One run with the Search API (a start date in 2025) and one *)
(* with basic pagination, each against a remote of one qualified contact.  *)
(***************************************************************************)
PagesInit ==
  /\ data = <<>>
  /\ now \in Clock
  /\ processed = Pending
  /\ apiKeyEnv = [set |-> TRUE, value |-> " pat-na1 "]
  /\ startDate \in {NoDate, DateOf(2025, 6, 1)} /\ endDate = NoDate
  /\ remote \in {<<ContactPool[1]>>, <<ContactPool[1], ContactPool[2]>>}
  /\ endless \in BOOLEAN
  /\ csvFile = NoFile
  /\ pc = "start" /\ after = 0 /\ pageCount = 0
  /\ allContacts = <<>> /\ contacts = <<>>
  /\ companyIds = <<>> /\ ownerIds = <<>>
  /\ companiesMap = EmptyDict /\ ownersMap = EmptyDict
  /\ calls = NoCalls /\ faults = NoFaults
  /\ HomeIdle

SpecPages == PagesInit /\ [][Next]_vars

(***************************************************************************)
(* Home, the dashboard page of src/app/page.tsx.  Its state is startDate,   *)
(* endDate, processedData and error; every call of handleSyncHubSpot starts *)
(* a transition that awaits fetchAndProcessHubSpotData with the dates of    *)
(* the render it was called in.  The server has a valid key, a remote       *)
(* without contacts and the flat file, so a request that answers with data  *)
(* answers with the flat-file snapshot of its date range; a request may     *)
(* also answer null or throw.  The page starts at most MaxSyncs transitions.*)
(***************************************************************************)
MaxSyncs == 3

\* the days the two calendars offer, and the quick preset "All 2025"
StartDays == {NoDate, DateOf(2025, 4, 1)}

EndDays == {NoDate, DateOf(2025, 4, 30)}

Presets == {<<DateOf(2025, 1, 1), DateOf(2025, 12, 31)>>}

FetchFailedMessage ==
  "Failed to fetch or process HubSpot data. Check API key and permissions, or server logs."

\* lines 55-81: the snapshot without the reps, brands and accounts the page
\* holds to be placeholders
cleanedData(fetched) ==
  LET realRep(rep) == rep # "" /\ rep # "N/A" /\ rep # "Unknown Rep" /\ trim(rep) # ""
      realBrand(brand) ==
        brand # "" /\ brand # "Other" /\ brand # "Unknown" /\ trim(brand) # ""
      Named(acc) == acc.AccountName # "" /\ acc.AccountName # "Unknown Account"
      Ranked(acc) == Named(acc) /\ acc.PrimaryRepName # "" /\ acc.PrimaryRepName # "N/A"
      only(d, keep(_)) == [k \in {x \in DOMAIN d : keep(x)} |-> d[k]]
  IN  [fetched EXCEPT !.salesByRep = only(fetched.salesByRep, realRep),
                      !.salesByBrand = only(fetched.salesByBrand, realBrand),
                      !.topPerformingAccounts = SelectSeq(@, Ranked),
                      !.allAccounts = SelectSeq(@, Named)]

\* a transition that is awaiting its request
pendingSync(start, end) == [status |-> "pending", startDate |-> start, endDate |-> end]

\* a transition that is over: "stored" after setProcessedData, else "failed"
settledSync(status) == [status |-> status, startDate |-> NoDate, endDate |-> NoDate]

isPending == \E i \in 1..Len(syncs) : syncs[i].status = "pending"

\* lines 48-52: handleSyncHubSpot up to its await
handleSyncHubSpot(start, end) ==
  /\ error' = ""
  /\ syncs' = Append(syncs, pendingSync(start, end))

\* setStartDate and setEndDate of one event handler, and the effect of lines
\* 29-33 that follows the render
selectDates(start, end) ==
  /\ pc = "idle"
  /\ processedData # Null => Len(syncs) < MaxSyncs
  /\ startDate' = start /\ endDate' = end
  /\ IF processedData # Null THEN handleSyncHubSpot(start, end)
     ELSE UNCHANGED <<error, syncs>>
  /\ UNCHANGED <<data, now, processed, apiKeyEnv, remote, endless, csvFile, pc, after,
                 pageCount, allContacts, contacts, companyIds, ownerIds, companiesMap,
                 ownersMap, calls, faults, processedData>>

HomeInit ==
  /\ data = <<>>
  /\ now \in Clock
  /\ processed = Pending
  /\ apiKeyEnv = [set |-> TRUE, value |-> " pat-na1 "]
  /\ startDate = NoDate /\ endDate = NoDate
  /\ remote = <<>> /\ endless = FALSE
  /\ csvFile \in CsvFiles \ {NoFile}
  /\ pc = "idle" /\ after = 0 /\ pageCount = 0
  /\ allContacts = <<>> /\ contacts = <<>>
  /\ companyIds = <<>> /\ ownerIds = <<>>
  /\ companiesMap = EmptyDict /\ ownersMap = EmptyDict
  /\ calls = NoCalls /\ faults = NoFaults
  /\ HomeIdle

\* line 226: the button "Sync HubSpot", disabled while a transition is pending
ClickSync ==
  /\ pc = "idle"
  /\ ~isPending
  /\ Len(syncs) < MaxSyncs
  /\ handleSyncHubSpot(startDate, endDate)
  /\ UNCHANGED <<data, now, processed, fetchVars, processedData>>

\* lines 136-139: a day of the start calendar is selected or deselected
SelectStartDate ==
  \E date \in StartDays \ {startDate} :
    /\ date # NoDate /\ endDate # NoDate => ~DateLt(endDate, date)
    /\ selectDates(date, endDate)

\* lines 166-169: a day of the end calendar is selected or deselected
SelectEndDate ==
  \E date \in EndDays \ {endDate} :
    /\ date # NoDate /\ startDate # NoDate => ~DateLt(date, startDate)
    /\ selectDates(startDate, date)

\* lines 99-102 and 177-185: the button "Clear", shown while a date is set
clearDateRange ==
  /\ startDate # NoDate \/ endDate # NoDate
  /\ selectDates(NoDate, NoDate)

\* lines 191-200: a quick preset sets both dates to new Date objects, so the
\* effect runs even when the days are the ones already selected
SelectPreset == \E range \in Presets : selectDates(range[1], range[2])

\* lines 53-95: a pending transition goes on after its await with the answer
\* of the server
CompleteSync ==
  /\ pc = "idle"
  /\ \E i \in 1..Len(syncs), outcome \in {"data", "null", "throw"} :
       LET settle(fetched) ==
             /\ IF outcome = "throw"
                  THEN error' = Thrown.threw /\ processedData' = processedData
                  ELSE IF fetched # Null
                    THEN processedData' = cleanedData(fetched) /\ error' = error
                    ELSE error' = FetchFailedMessage /\ processedData' = processedData
             /\ syncs' = [syncs EXCEPT ![i] =
                            settledSync(IF outcome = "data" /\ fetched # Null
                                          THEN "stored" ELSE "failed")]
       IN  /\ syncs[i].status = "pending"
           /\ settle(IF outcome = "data"
                       THEN csvFallback(csvFile, syncs[i].startDate, syncs[i].endDate, now)
                       ELSE Null)
  /\ UNCHANGED <<data, now, processed, fetchVars>>

HomeNext ==
  \/ ClickSync
  \/ SelectStartDate
  \/ SelectEndDate
  \/ clearDateRange
  \/ SelectPreset
  \/ CompleteSync

SpecHome == HomeInit /\ [][HomeNext]_vars

(***************************************************************************)
(* Properties of the fetch pipeline (checked under Spec).                  *)
(***************************************************************************)
\* HUBSPOT_API_KEY is absent, empty or made of whitespace only
KeyBlank ==
  \/ ~apiKeyEnv.set
  \/ \A i \in 1..Len(apiKeyEnv.value) : CharAt(apiKeyEnv.value, i) \in Whitespace

Returned == pc = "done"

\* the function has returned after a pagination that ran to its end
FetchCompleted == Returned /\ ~KeyBlank /\ ~faults.page

NoneQualified == \A i \in 1..Len(allContacts) : ~isQualifiedLead(allContacts[i])

\* the contact was created inside [startDate, endDate], either end open when
\* it is left out
InDateRange(contact) ==
  LET created == newDate(contact.createdate)
  IN  \/ startDate = NoDate /\ endDate = NoDate
      \/ /\ contact.createdate # ""
         /\ created.valid
         /\ (startDate # NoDate => created.t >= startDate.t)
         /\ (endDate # NoDate => created.t <= endDate.t)

QualifiedInRange == SelectSeq(SelectSeq(allContacts, isQualifiedLead), InDateRange)

\* what the flat-file adapter produces for startDate and endDate: its
\* snapshot, or Null because the error it throws is caught by the caller
CsvOutcome ==
  IF csvThrows(csvFile) THEN Null
  ELSE processAccountDataInternal(csvAccounts(csvFile, startDate, endDate), now)

\* C1: when no fetched contact passes the qualification filter, be it of no
\* contact or of many, the run returns what the flat-file adapter produces
\* for the same startDate and endDate and issues no company and no owner
\* lookup.
C1_NoQualifiedLeadReturnsCsv ==
  (FetchCompleted /\ NoneQualified) =>
    /\ processed = CsvOutcome
    /\ calls.csv = 1
    /\ calls.company = 0
    /\ calls.owner = 0

\* several contacts fetched, none qualified, a date range given, and the
\* flat-file snapshot of the rows its date filter lets through returned
C1_Witness ==
  /\ FetchCompleted
  /\ NoneQualified
  /\ Len(allContacts) >= 2
  /\ startDate # NoDate
  /\ processed # Null
  /\ processed.totalAccounts = 2
  /\ Len(csvFile.rows) > 1

\* C2 as stated: whenever the contact set after the qualification filter and
\* the date filter is empty, the run returns the flat-file snapshot.
C2_EmptyAfterBothFiltersReturnsCsv ==
  (FetchCompleted /\ QualifiedInRange = <<>>) =>
    /\ processed = CsvOutcome
    /\ calls.csv = 1

\* C2, amended: the flat-file adapter is used exactly when no fetched contact
\* is qualified; with a qualified contact the run returns the snapshot of the
\* qualified contacts inside the date range, an empty snapshot when there are
\* none, and never reads the flat file.
C2_FallbackOnQualificationOnly ==
  FetchCompleted =>
    /\ NoneQualified => calls.csv = 1
    /\ ~NoneQualified =>
         /\ calls.csv = 0
         /\ contacts = QualifiedInRange
         /\ processed # Null
         /\ processed.totalAccounts = Len(QualifiedInRange)
         /\ Len(processed.allAccounts) = Len(QualifiedInRange)

\* a qualified contact, none inside the date range, a flat file with a row
\* inside it, and the empty remote snapshot returned
C2_Witness ==
  /\ FetchCompleted
  /\ ~NoneQualified
  /\ QualifiedInRange = <<>>
  /\ processed.totalAccounts = 0
  /\ ~csvThrows(csvFile)
  /\ Len(csvAccounts(csvFile, startDate, endDate)) > 0

\* C3: with HUBSPOT_API_KEY absent, empty or whitespace only the run throws
\* before any remote request: no request of any kind is ever issued, the flat
\* file is never read, and the run ends in the thrown error, never in null
\* and never in a snapshot.
C3_BlankKeyThrowsBeforeAnyRequest ==
  KeyBlank =>
    /\ calls = NoCalls
    /\ pc \in {"start", "done"}
    /\ processed = (IF pc = "done" THEN Thrown ELSE Pending)
    /\ data = <<>>

\* a key of whitespace only, and the run ended in the throw
C3_Witness ==
  /\ apiKeyEnv.set
  /\ apiKeyEnv.value # ""
  /\ KeyBlank
  /\ pc = "done"
  /\ processed = Thrown

\* C4 as stated: a failed contact page request, of the Search API or of basic
\* pagination, makes the run return null.
C4_AnyPageFailureReturnsNull ==
  (Returned /\ (faults.search \/ faults.page)) => processed = Null

\* C4, amended: a failed getPage request, on the basic path or on the
\* fallback path, ends the run at once in null: no snapshot, no lookup, no
\* flat file.  A failed search request does not: basic pagination starts
\* over on top of the contacts the search pages had delivered, and the run
\* goes on to its result.
C4_GetPageFailureReturnsNull ==
  /\ faults.page =>
       /\ pc = "done"
       /\ processed = Null
       /\ data = <<>>
       /\ calls.csv = 0 /\ calls.company = 0 /\ calls.owner = 0
  /\ (Returned /\ faults.search /\ ~faults.page) =>
       /\ Len(allContacts) = faults.kept + Len(remote)
       /\ SubSeq(allContacts, faults.kept + 1, Len(allContacts)) = remote
       /\ (processed = Null) = (NoneQualified /\ csvThrows(csvFile))

\* a search page delivered, the next search request failed, a fallback page
\* delivered, the next getPage request failed, and the run returned null
C4_Witness ==
  /\ faults.search
  /\ faults.kept > 0
  /\ faults.page
  /\ Len(allContacts) > faults.kept
  /\ processed = Null


(***************************************************************************)
(* Properties of the aggregation engine (checked under SpecAgg).           *)
(***************************************************************************)
Aggregated == processed # Pending

\* the parsed sales value of row i of the input
SalesAt(i) == parseCurrency(data[i].TotalSales)

\* the rows whose value is finite and of magnitude at most 1e12
WithinLimit == {i \in 1..Len(data) : Leq(Abs(SalesAt(i)), MaxMagnitude)}

OverLimit == (1..Len(data)) \ WithinLimit

\* the sum of the parsed sales values of the rows in S, in input order
RECURSIVE SalesSum(_, _)
SalesSum(S, n) ==
  IF n = 0 THEN Zero
  ELSE IF n \in S THEN Add(SalesSum(S, n - 1), SalesAt(n)) ELSE SalesSum(S, n - 1)

RECURSIVE SumOver(_, _)
SumOver(f, S) ==
  IF S = {} THEN 0 ELSE LET k == CHOOSE k \in S : TRUE IN f[k] + SumOver(f, S \ {k})

\* the accounts counted by all the buckets of a rollup together
BucketAccounts(d) == SumOver([k \in DOMAIN d |-> d[k].accounts], DOMAIN d)

\* C5: totalAccounts equals the number of input accounts, whatever their
\* sales values, also for accounts left out of every numeric aggregate.
C5_TotalAccountsIsInputSize ==
  Aggregated => processed.totalAccounts = Len(data)

C5_Witness ==
  /\ Aggregated /\ OverLimit # {} /\ WithinLimit # {}
  /\ processed.totalAccounts = Len(data)

\* C6: totalRevenue is the sum of the parsed sales values of exactly the
\* accounts whose value has magnitude <= 1e12; a value of exactly 1e12 is
\* included, a larger one adds nothing.
C6_TotalRevenueIsSumWithinLimit ==
  Aggregated => processed.totalRevenue = SalesSum(WithinLimit, Len(data))

C6_Witness ==
  /\ Aggregated
  /\ \E i \in 1..Len(data) : Abs(SalesAt(i)) = MaxMagnitude
  /\ OverLimit # {}
  /\ Leq(MaxMagnitude, processed.totalRevenue)

\* C7 as claimed: the rep buckets and the brand buckets each count every
\* account of allAccounts once, also when some value is over 1e12.
C7_EveryAccountInOneBucket ==
  Aggregated =>
    /\ BucketAccounts(processed.salesByRep) = Len(processed.allAccounts)
    /\ BucketAccounts(processed.salesByBrand) = Len(processed.allAccounts)

\* C7 amended: the rep buckets and the brand buckets count exactly the
\* accounts whose value has magnitude <= 1e12, each once, under its own rep
\* ("N/A" when empty) and its own brand; an account over 1e12 stays in
\* allAccounts and is counted in no bucket.
C7_AccountsWithinLimitInOneBucket ==
  Aggregated =>
    /\ processed.allAccounts = data
    /\ DOMAIN processed.salesByRep =
         {Or(data[i].PrimaryRepName, "N/A") : i \in WithinLimit}
    /\ \A k \in DOMAIN processed.salesByRep :
         processed.salesByRep[k].accounts =
           Cardinality({i \in WithinLimit : Or(data[i].PrimaryRepName, "N/A") = k})
    /\ DOMAIN processed.salesByBrand =
         {extractBrandFromAccountNameHS(data[i].AccountName) : i \in WithinLimit}
    /\ \A k \in DOMAIN processed.salesByBrand :
         processed.salesByBrand[k].accounts =
           Cardinality({i \in WithinLimit :
                          extractBrandFromAccountNameHS(data[i].AccountName) = k})
    /\ BucketAccounts(processed.salesByRep) = Cardinality(WithinLimit)
    /\ BucketAccounts(processed.salesByBrand) = Cardinality(WithinLimit)

C7_Witness ==
  /\ Aggregated /\ OverLimit # {}
  /\ Cardinality(WithinLimit) >= 2
  /\ BucketAccounts(processed.salesByRep) < Len(processed.allAccounts)
  /\ \E k \in DOMAIN processed.salesByRep : processed.salesByRep[k].accounts >= 2

\* the revenue of all the buckets of a rollup together
RECURSIVE RevenueOver(_, _)
RevenueOver(d, S) ==
  IF S = {} THEN Zero
  ELSE LET k == CHOOSE k \in S : TRUE IN Add(d[k].revenue, RevenueOver(d, S \ {k}))

BucketRevenue(d) == RevenueOver(d, DOMAIN d)

\* the same for a rollup that is a list of entries
ListRevenue(es) == RevenueOver(es, 1..Len(es))

HasCampaign(i) ==
  LET c == Or(data[i].LastTouchCampaign, data[i].FirstTouchCampaign)
  IN  c # "" /\ trim(c) # "" /\ c # "Unknown Campaign"

HasFirstUrl(i) == trim(data[i].FirstURL) # ""

HasCreated(i) == data[i].DateCreated \notin {"", "N/A"}

HasMonth(i) == HasCreated(i) /\ newDate(data[i].DateCreated).valid

\* C8 as claimed: an account whose value is over 1e12 adds nothing to the
\* revenue of monthlyTrends, trafficSourcePerformance,
\* geographicDistribution, campaignPerformance, landingPagePerformance and
\* seasonalTrends: each of them totals the values within the limit of the
\* accounts it counts.
C8_OverLimitSkippedEverywhere ==
  Aggregated =>
    LET n == Len(data)
        In(P(_)) == {i \in WithinLimit : P(i)}
    IN  /\ ListRevenue(processed.monthlyTrends) = SalesSum(In(HasMonth), n)
        /\ BucketRevenue(processed.trafficSourcePerformance) = SalesSum(WithinLimit, n)
        /\ BucketRevenue(processed.geographicDistribution) = SalesSum(WithinLimit, n)
        /\ BucketRevenue(processed.campaignPerformance) = SalesSum(In(HasCampaign), n)
        /\ BucketRevenue(processed.landingPagePerformance) = SalesSum(In(HasFirstUrl), n)
        /\ ListRevenue(processed.timeBasedInsights.seasonalTrends)
             = SalesSum(In(HasCreated), n)

\* the rows with a strictly positive value among those totalRevenue includes
PositiveWithinLimit == {i \in WithinLimit : Lt(Zero, SalesAt(i))}

\* C9 as claimed: with at least one positive (finite) sales value in the
\* collection averageDealSize is greater than 0, and averageDealSize is the
\* mean of the strictly positive values among those included in totalRevenue.
C9_AverageDealSizePositive ==
  Aggregated =>
    /\ (\E i \in 1..Len(data) : Lt(Zero, SalesAt(i)))
         => Lt(Zero, processed.averageDealSize.num)
    /\ PositiveWithinLimit # {}
         => processed.averageDealSize =
              Ratio(SalesSum(PositiveWithinLimit, Len(data)), Cardinality(PositiveWithinLimit))

\* C10: no rollup dictionary of a snapshot holds a key with a count of 0:
\* every key of salesByRep, salesByBrand, topStates, geographicDistribution,
\* lifecycleStageDistribution, trafficSourcePerformance, campaignPerformance
\* and landingPagePerformance has counted at least one account.
C10_NoEmptyBucket ==
  Aggregated =>
    /\ \A k \in DOMAIN processed.salesByRep : processed.salesByRep[k].accounts >= 1
    /\ \A k \in DOMAIN processed.salesByBrand : processed.salesByBrand[k].accounts >= 1
    /\ \A k \in DOMAIN processed.topStates : processed.topStates[k].accounts >= 1
    /\ \A k \in DOMAIN processed.geographicDistribution :
         processed.geographicDistribution[k].leads >= 1
    /\ \A k \in DOMAIN processed.lifecycleStageDistribution :
         processed.lifecycleStageDistribution[k] >= 1
    /\ \A k \in DOMAIN processed.trafficSourcePerformance :
         processed.trafficSourcePerformance[k].leads >= 1
    /\ \A k \in DOMAIN processed.campaignPerformance :
         processed.campaignPerformance[k].leads >= 1
    /\ \A k \in DOMAIN processed.landingPagePerformance :
         processed.landingPagePerformance[k].leads >= 1

C10_Witness ==
  /\ Aggregated
  /\ DOMAIN processed.salesByRep # {} /\ DOMAIN processed.salesByBrand # {}
  /\ DOMAIN processed.topStates # {} /\ DOMAIN processed.lifecycleStageDistribution # {}
  /\ DOMAIN processed.campaignPerformance # {}
  /\ DOMAIN processed.landingPagePerformance # {}
  /\ Cardinality(DOMAIN processed.geographicDistribution) >= 2
  /\ Cardinality(DOMAIN processed.trafficSourcePerformance) >= 2

(***************************************************************************)
(* Claims about the ranked lists, checked under SpecRank.                  *)
(***************************************************************************)
\* the place of data[i] in the order of descending parsed sales value that
\* keeps accounts of equal value in input order
PlaceOf(i) ==
  1 + Cardinality({j \in 1..Len(data) : Lt(SalesAt(i), SalesAt(j))})
    + Cardinality({j \in 1..(i - 1) : SalesAt(j) = SalesAt(i)})

\* C11: topPerformingAccounts is the first min(5, n) accounts of the input
\* sorted by descending parsed sales value, accounts of equal value keeping
\* their input order.
C11_TopIsHeadOfStableSort ==
  Aggregated =>
    /\ Len(processed.topPerformingAccounts) = (IF Len(data) < 5 THEN Len(data) ELSE 5)
    /\ \A i \in 1..Len(data) :
         PlaceOf(i) <= 5 => processed.topPerformingAccounts[PlaceOf(i)] = data[i]

\* more than 5 accounts, two distinct ones of equal value both in the list
C11_Witness ==
  /\ Aggregated
  /\ Len(data) > 5
  /\ \E i, j \in 1..Len(data) :
       /\ i < j /\ data[i] # data[j] /\ SalesAt(i) = SalesAt(j)
       /\ PlaceOf(j) <= 5
       /\ processed.topPerformingAccounts[PlaceOf(j) - 1] = data[i]

(***************************************************************************)
(* Two runs on the same accounts in two orders, checked under SpecAgg: the *)
(* second run is the first with two neighbouring accounts exchanged; any   *)
(* reordering is a chain of such exchanges.                                *)
(***************************************************************************)
Exchanged(i) ==
  [k \in 1..Len(data) |->
     IF k = i THEN data[i + 1] ELSE IF k = i + 1 THEN data[i] ELSE data[k]]

SecondRuns ==
  {processAccountDataInternal(Exchanged(i), now) : i \in 1..(Len(data) - 1)}

SameTotals(other) ==
  /\ other.totalAccounts = processed.totalAccounts
  /\ other.totalRevenue = processed.totalRevenue
  /\ other.averageDealSize = processed.averageDealSize
  /\ other.recentlyQuoted = processed.recentlyQuoted

SameRollups(other) ==
  /\ other.salesByRep = processed.salesByRep
  /\ other.salesByBrand = processed.salesByBrand
  /\ other.salesDistribution = processed.salesDistribution
  /\ other.topStates = processed.topStates
  /\ other.lifecycleStageDistribution = processed.lifecycleStageDistribution
  /\ other.trafficSourcePerformance = processed.trafficSourcePerformance
  /\ other.geographicDistribution = processed.geographicDistribution
  /\ other.campaignPerformance = processed.campaignPerformance
  /\ other.landingPagePerformance = processed.landingPagePerformance

SalesOf(list) == [k \in 1..Len(list) |-> parseCurrency(list[k].TotalSales)]

ScoresOf(list) == [k \in 1..Len(list) |-> list[k].healthScore]

\* no two different accounts of the collection have the same parsed sales value
NoSalesTie ==
  \A i, j \in 1..Len(data) : data[i] # data[j] => SalesAt(i) # SalesAt(j)

\* no two different entries of leadHealthScores have the same score
NoScoreTie ==
  \A i, j \in 1..Len(data) :
    processed.leadHealthScores[i] # processed.leadHealthScores[j]
      => processed.leadHealthScores[i].healthScore # processed.leadHealthScores[j].healthScore

EntriesOf(i) ==
  {k \in 1..Len(processed.leadHealthScores) :
     /\ processed.leadHealthScores[k].accountId = data[i].AccountID
     /\ processed.leadHealthScores[k].accountName = data[i].AccountName}

\* the account earns no bonus: no scored source in its source text, no more
\* than 2 visits (or none, or a text that is no number), no scored stage
EarnsNoBonus(account) ==
  /\ \A label \in {"Referral", "Organic Search", "Paid Search"} :
       ~includes(account.AnalyticsSource, label)
  /\ ~visitsAbove(account.NumberOfVisits, 2)
  /\ toLowerCase(account.LifecycleStage)
       \notin {"customer", "salesqualifiedlead", "marketingqualifiedlead"}

\* C13: every health score is in [0, 100], and is exactly 50 for an account
\* that earns no bonus; leadHealthScores has one entry per input account and
\* is sorted by non-increasing score.
C13_ScoresBoundedAndSorted ==
  Aggregated =>
    /\ Len(processed.leadHealthScores) = Len(data)
    /\ \A i \in 1..Len(data) :
         /\ Cardinality(EntriesOf(i))
              = Cardinality({j \in 1..Len(data) : data[j] = data[i]})
         /\ \A k \in EntriesOf(i) :
              /\ processed.leadHealthScores[k].healthScore \in 0..100
              /\ EarnsNoBonus(data[i]) => processed.leadHealthScores[k].healthScore = 50
    /\ \A k \in 1..(Len(data) - 1) :
         processed.leadHealthScores[k].healthScore
           >= processed.leadHealthScores[k + 1].healthScore

\* an account whose bonuses add up to more than 100 (referral, more than 2
\* visits, customer) listed before one that earns none
C13_Witness ==
  /\ Aggregated
  /\ Len(data) = 3
  /\ \E i, j \in 1..Len(data) :
       /\ includes(data[i].AnalyticsSource, "Referral")
       /\ visitsAbove(data[i].NumberOfVisits, 2)
       /\ data[i].LifecycleStage = "customer"
       /\ EarnsNoBonus(data[j])
       /\ i > j
       /\ \E k \in EntriesOf(i), l \in EntriesOf(j) :
            /\ k < l
            /\ processed.leadHealthScores[k].healthScore = 100
            /\ processed.leadHealthScores[l].healthScore = 50

(***************************************************************************)
(* Claims about leastPerformingAccounts, checked under SpecRank.           *)
(***************************************************************************)
\* a snapshot of 7 accounts, all of negative sales value
SevenLosses ==
  /\ Aggregated
  /\ Len(data) = 7
  /\ \A i \in 1..Len(data) : Lt(SalesAt(i), Zero)

\* C14 as stated: for 7 accounts of negative value, leastPerformingAccounts
\* holds the 5 values closest to 0, from the least negative to the most
\* negative.
C14_FiveClosestToZero ==
  SevenLosses =>
    /\ Len(processed.leastPerformingAccounts) = 5
    /\ \A i \in 1..Len(data) :
         PlaceOf(i) <= 5
           => parseCurrency(processed.leastPerformingAccounts[PlaceOf(i)].TotalSales)
                = SalesAt(i)

\* C14 amended: for 7 accounts of negative value, leastPerformingAccounts
\* holds the 5 most negative accounts, the most negative first: the account at
\* place p >= 3 of the descending order sits at place 8 - p of the list.
C14_FiveMostNegative ==
  SevenLosses =>
    /\ Len(processed.leastPerformingAccounts) = 5
    /\ \A i \in 1..Len(data) :
         PlaceOf(i) >= 3 => processed.leastPerformingAccounts[8 - PlaceOf(i)] = data[i]

\* 7 losses of which the two closest to 0 are left out of the list
C14_Witness ==
  /\ SevenLosses
  /\ Cardinality({i \in 1..Len(data) : SalesAt(i) = Units(-7)}) = 2
  /\ \A k \in 1..5 :
       parseCurrency(processed.leastPerformingAccounts[k].TotalSales) = Units(-50)

(***************************************************************************)
(* Claims about the helper functions, checked under SpecCalls.             *)
(***************************************************************************)
CallReturned(name) == processed # Pending /\ data.call = name

FirstToken(name) ==
  LET hits == {k \in 1..Len(KNOWN_BRANDS_HS) :
                 includes(toLowerCase(name), toLowerCase(KNOWN_BRANDS_HS[k]))}
  IN  IF hits = {} THEN 0 ELSE CHOOSE k \in hits : \A j \in hits : k <= j

\* the name is answered with a known token: its first token is no generic
\* suffix, or no text stands before it
AnswersWithToken(name) ==
  LET plain(k, lower) ==
        /\ k > 0
        /\ \/ KNOWN_BRANDS_HS[k] \notin GenericSuffixes
           \/ trim(Slice(lower, 1, indexOf(lower, toLowerCase(KNOWN_BRANDS_HS[k])) - 1)) = ""
  IN  plain(FirstToken(name), toLowerCase(name))

OpensWithNumber(text) ==
  LET opens(body) ==
        \/ CharAt(body, 1) \in Digits
        \/ CharAt(body, 1) = "." /\ CharAt(body, 2) \in Digits
      unsigned(t) == opens(IF t # "" /\ Head(t) \in {"+", "-"} THEN Tail(t) ELSE t)
  IN  unsigned(stripDecoration(text))

\* C16: parseCurrency always returns a finite number: 0 for null, undefined,
\* an empty text, a text without a leading numeric literal once "$", "," and
\* whitespace are stripped, and for the numbers NaN and +-Infinity; a finite
\* number is returned unchanged; and parsing the decimal text of a result
\* gives the result again.
C16_ParseCurrencyTotalAndFinite ==
  CallReturned("parseCurrency") =>
    /\ isFinite(processed.returned)
    /\ data.input.type \in {"null", "undefined"} => processed.returned = Finite(Zero)
    /\ data.input.type = "string" /\ ~OpensWithNumber(data.input.text)
         => processed.returned = Finite(Zero)
    /\ data.input.type = "number" /\ ~isFinite(data.input.number)
         => processed.returned = Finite(Zero)
    /\ data.input.type = "number" /\ isFinite(data.input.number)
         => processed.returned = data.input.number
    /\ parseCurrencyValue(TextValue(stringOfNumber(processed.returned))) = processed.returned

\* a decorated text read as 1200.5, whose decimal text is "1200.5"
C16_Witness ==
  /\ CallReturned("parseCurrency")
  /\ data.input = TextValue("$1,200.50")
  /\ processed.returned = Finite(Norm(0, 120050))
  /\ stringOfNumber(processed.returned) = "1200.5"

(***************************************************************************)
(* Claims about the date range, checked under Spec.                        *)
(***************************************************************************)
\* the fetch returned a snapshot for a call that gave a start or an end date
SnapshotOfRange ==
  /\ Returned
  /\ processed # Null /\ processed # Pending
  /\ "allAccounts" \in DOMAIN processed
  /\ startDate # NoDate \/ endDate # NoDate

\* the date is a valid one between the start and the end date given
CreatedWithinRange(created) ==
  /\ created.valid
  /\ startDate # NoDate => created.t >= startDate.t
  /\ endDate # NoDate => created.t <= endDate.t

\* C17: when a start and/or an end date is given, every account of the
\* snapshot, from the remote adapter or from the flat file, has a parseable
\* creation date d with start <= d <= end; a record whose creation date is
\* missing or unparseable is left out.
C17_EveryAccountInDateRange ==
  SnapshotOfRange =>
    \A i \in 1..Len(processed.allAccounts) :
      CreatedWithinRange(newDate(processed.allAccounts[i].DateCreated))

(***************************************************************************)
(* The padding of leastPerformingAccounts, checked under SpecRank.         *)
(***************************************************************************)
\* min(5, n) for the n accounts of the collection
ListLength == IF Len(data) < 5 THEN Len(data) ELSE 5

NegativeCount == Cardinality({i \in 1..Len(data) : Lt(SalesAt(i), Zero)})

\* C18: leastPerformingAccounts has exactly min(5, n) entries and is the last
\* min(5, n) accounts of the stable descending sort in reverse order: the
\* negative accounts first, the most negative first, then, only when fewer
\* than 5 accounts are negative, the lowest non-negative accounts; its sales
\* values never decrease along the list.
C18_LeastIsReversedTailOfSort ==
  Aggregated =>
    /\ Len(processed.leastPerformingAccounts) = ListLength
    /\ \A i \in 1..Len(data) :
         PlaceOf(i) > Len(data) - ListLength
           => processed.leastPerformingAccounts[Len(data) + 1 - PlaceOf(i)] = data[i]
    /\ \A k \in 1..(ListLength - 1) :
         Leq(parseCurrency(processed.leastPerformingAccounts[k].TotalSales),
             parseCurrency(processed.leastPerformingAccounts[k + 1].TotalSales))
    /\ \A k \in 1..ListLength :
         ~Lt(parseCurrency(processed.leastPerformingAccounts[k].TotalSales), Zero)
           => NegativeCount < k /\ NegativeCount < 5

\* six different accounts, three of them negative with two of equal value:
\* the list is the three negative ones, then the zero account, then one of
\* the accounts at 100, and the other account at 100 is left out
C18_Witness ==
  /\ Aggregated
  /\ Len(data) = 6 /\ Cardinality({data[i] : i \in 1..Len(data)}) = 6
  /\ NegativeCount = 3
  /\ SalesOf(processed.leastPerformingAccounts)
       = <<Units(-50), Units(-50), Units(-7), Zero, Units(100)>>
  /\ processed.leastPerformingAccounts[1].AccountID = 11

(***************************************************************************)
(* The estimated value of a lifecycle stage, checked under SpecCalls.      *)
(***************************************************************************)
\* the place of a stage in the order customer, salesqualifiedlead/sql,
\* marketingqualifiedlead/mql, lead, subscriber, any other stage
ListedPlace(stage) ==
  LET of(s) ==
        IF s = "customer" THEN 1
        ELSE IF s \in {"salesqualifiedlead", "sql"} THEN 2
        ELSE IF s \in {"marketingqualifiedlead", "mql"} THEN 3
        ELSE IF s = "lead" THEN 4
        ELSE IF s = "subscriber" THEN 5
        ELSE 6
  IN  of(toLowerCase(stage))

\* the same order with subscriber after the other stages
PlaceWithSubscriberLast(stage) ==
  IF ListedPlace(stage) = 5 THEN 6 ELSE IF ListedPlace(stage) = 6 THEN 5
  ELSE ListedPlace(stage)

\* C19 as stated: the estimated value strictly descends over customer,
\* salesqualifiedlead/sql, marketingqualifiedlead/mql, lead, subscriber,
\* unknown (any other stage).
C19_ValueDescendsInListedOrder ==
  CallReturned("leadValue") =>
    \A other \in LifecycleStages :
      ListedPlace(data.input.text) < ListedPlace(other)
        => Lt(parseCurrency(leadValueOf(other)), parseCurrency(processed.returned))

\* C19 amended: the estimated value strictly descends over customer,
\* salesqualifiedlead/sql, marketingqualifiedlead/mql, lead, any other stage,
\* subscriber; stages of one class have one value.
C19_ValueDescendsSubscriberLast ==
  CallReturned("leadValue") =>
    \A other \in LifecycleStages :
      /\ PlaceWithSubscriberLast(data.input.text) < PlaceWithSubscriberLast(other)
           => Lt(parseCurrency(leadValueOf(other)), parseCurrency(processed.returned))
      /\ PlaceWithSubscriberLast(data.input.text) = PlaceWithSubscriberLast(other)
           => leadValueOf(other) = processed.returned

\* an unlisted stage estimated at 1000, above the 500 of a subscriber
C19_Witness ==
  /\ CallReturned("leadValue")
  /\ data.input.text = "opportunity"
  /\ processed.returned = "1000"
  /\ leadValueOf("subscriber") = "500"

(***************************************************************************)
(* The source bonus of the lead health score, checked under SpecRank.      *)
(***************************************************************************)
\* the one source bonus in the priority Referral, Organic Search, Paid Search
ListedSourceBonus(source) ==
  IF includes(source, "Referral") THEN 20
  ELSE IF includes(source, "Organic Search") THEN 15
  ELSE IF includes(source, "Paid Search") THEN 10
  ELSE 0

VisitsBonus(visits) ==
  IF visitsAbove(visits, 5) THEN 15 ELSE IF visitsAbove(visits, 2) THEN 10 ELSE 0

StageBonus(stage) ==
  IF stage = "customer" THEN 30
  ELSE IF stage = "salesqualifiedlead" THEN 25
  ELSE IF stage = "marketingqualifiedlead" THEN 15
  ELSE 0

\* C20: calculateLeadHealthScore adds at most one source bonus, and for a
\* source text that matches several of Referral, Organic Search and Paid
\* Search it is the bonus of the first match in the priority Referral (+20),
\* Organic Search (+15), Paid Search (+10).
C20_SourceBonusByListedPriority ==
  Aggregated =>
    \A i \in 1..Len(data) : \A k \in EntriesOf(i) :
      processed.leadHealthScores[k].healthScore
        = clampScore(50 + ListedSourceBonus(data[i].AnalyticsSource)
                        + VisitsBonus(data[i].NumberOfVisits)
                        + StageBonus(toLowerCase(data[i].LifecycleStage)))

(***************************************************************************)
(* Claims about the dates of the accounts, checked under SpecAgg.          *)
(***************************************************************************)
\* the creation date text is there and reads as a date
CreatedParses(account) ==
  /\ account.DateCreated # "" /\ account.DateCreated # "N/A"
  /\ newDate(account.DateCreated).valid

\* C21: getLeadRiskLevel is "Unknown" for every account whose creation date
\* is absent, "N/A" or a text that does not parse as a date; High, Medium and
\* Low Risk are returned only for parseable dates.
C21_UnparseableDateIsUnknownRisk ==
  Aggregated =>
    \A i \in 1..Len(data) : \A k \in EntriesOf(i) :
      /\ ~CreatedParses(data[i]) => processed.leadHealthScores[k].riskLevel = "Unknown"
      /\ processed.leadHealthScores[k].riskLevel \in {"High Risk", "Medium Risk", "Low Risk"}
           => CreatedParses(data[i])

\* the histogram entries reported, each [key: the hour, val: its count]
PeakHours == processed.timeBasedInsights.peakActivityHours

\* C22: peakActivityHours counts only the accounts with a parseable creation
\* date: every reported hour is an integer in 0..23 (an unparseable date adds
\* no entry), at most 5 entries are reported in non-increasing order of count,
\* and the counts sum to at most the number of accounts with a parseable
\* creation date.
C22_PeakHoursOnlyFromParseableDates ==
  Aggregated =>
    /\ Len(PeakHours) <= 5
    /\ \A k \in 1..Len(PeakHours) :
         AllDigits(PeakHours[k].key) /\ IntOf(PeakHours[k].key) \in 0..23
    /\ \A k \in 1..(Len(PeakHours) - 1) : PeakHours[k].val >= PeakHours[k + 1].val
    /\ SumOver([k \in 1..Len(PeakHours) |-> PeakHours[k].val], 1..Len(PeakHours))
         <= Cardinality({i \in 1..Len(data) : CreatedParses(data[i])})

\* the accounts whose last-activity date is within the 90 days before now
QuotedRecently ==
  {i \in 1..Len(data) :
     /\ data[i].DateLastQuoted # "" /\ data[i].DateLastQuoted # "N/A"
     /\ newDate(data[i].DateLastQuoted).valid
     /\ DayNumber(newDate(data[i].DateLastQuoted)) > DayNumber(now) - 90}

\* C23: an account whose sales value is malformed or of magnitude > 1e12 is
\* left out of the sales aggregates only: it is counted under its label in
\* lifecycleStageDistribution, whose counts sum to totalAccounts, and by
\* recentlyQuoted when its last-activity date is within the last 90 days.
C23_OverLimitStillCountedByStageAndQuote ==
  Aggregated =>
    /\ SumOver(processed.lifecycleStageDistribution,
               DOMAIN processed.lifecycleStageDistribution) = processed.totalAccounts
    /\ \A i \in 1..Len(data) :
         /\ Or(data[i].LifecycleStage, "unknown") \in DOMAIN processed.lifecycleStageDistribution
         /\ processed.lifecycleStageDistribution[Or(data[i].LifecycleStage, "unknown")]
              = Cardinality({j \in 1..Len(data) :
                               Or(data[j].LifecycleStage, "unknown")
                                 = Or(data[i].LifecycleStage, "unknown")})
    /\ processed.recentlyQuoted = Cardinality(QuotedRecently)

\* C24: the contact fetch issues a bounded number of page requests even
\* against a remote whose every response carries a cursor: at most 500 search
\* requests, after a failed search at most 200 getPage requests, on basic
\* pagination at most 500; a loop stops at the first response without a
\* cursor; and the run ends (C24_PageRequestsBoundedAndRunEnds below)
PageRequestsBounded ==
  /\ calls.search <= SearchMaxPages
  /\ calls.page <= IF faults.search THEN FallbackMaxPages ELSE BasicMaxPages
  /\ calls.search > 0 => usesSearchApi(startDate)

StopsWithoutCursor ==
  (pc \in {"search", "fallback", "basic"} /\ pageCount' = pageCount + 1 /\ after' = 0)
    => pc' = "filter"

\* how many loop turns the run has left at most, ahead of the stretches of
\* code still to come: a number that cannot fall below 0
TurnsLeft ==
  CASE pc = "start" -> 5000
    [] pc = "search" -> 4000 + SearchMaxPages - pageCount
    [] pc = "fallback" -> 3000 + FallbackMaxPages - pageCount
    [] pc = "basic" -> 3000 + BasicMaxPages - pageCount
    [] pc = "filter" -> 2000
    [] pc = "lookups" -> 1000 + Len(companyIds) + Len(ownerIds)
    [] OTHER -> 0

\* the guards of the actions of Next, as far as they speak of the state
\* before the step
CanStep ==
  \/ pc \in {"start", "search", "fallback", "basic", "filter"}
  \/ pc = "lookups" /\ companyIds # <<>>
  \/ pc = "lookups" /\ companyIds = <<>> /\ ownerIds # <<>>
  \/ pc = "lookups" /\ companyIds = <<>> /\ ownerIds = <<>>

\* the run ends: until it is over it can always take a step, and every step
\* leaves it fewer turns
RunEnds ==
  /\ [](TurnsLeft >= 0 /\ (pc # "done" => CanStep))
  /\ [][TurnsLeft' < TurnsLeft]_vars

C24_PageRequestsBoundedAndRunEnds ==
  /\ []PageRequestsBounded
  /\ [][StopsWithoutCursor]_vars
  /\ RunEnds

\* a remote that always answers with a cursor, a failed search after which
\* the fallback issued all of its 200 requests, and the run over
C24_Witness ==
  /\ endless /\ faults.search /\ ~faults.page
  /\ calls.page = FallbackMaxPages
  /\ pc = "done" /\ processed # Null

\* C25: a failed company or owner lookup never aborts the run.  Whichever
\* lookups fail, every company id and every owner id of the filtered contacts
\* is looked up exactly once, in order and without a retry; the run returns a
\* snapshot, never null, built from one account for each filtered contact;
\* and an account whose owner lookup failed has the rep name "N/A"
CompanyIdSet ==
  UNION { {contacts[i].companies[j] : j \in 1..Len(contacts[i].companies)} :
            i \in 1..Len(contacts) }

OwnerIdSet == {contacts[i].hubspot_owner_id : i \in 1..Len(contacts)} \ {""}

\* the ids of `ids` are distinct
Distinct(ids) == \A i, j \in 1..Len(ids) : ids[i] = ids[j] => i = j

\* while the lookups run, the requests issued and the ids still to look up
\* make up the ids of the contacts, each once
LookupsOnceEach ==
  pc = "lookups" =>
    /\ calls.company + Len(companyIds) = Cardinality(CompanyIdSet)
    /\ calls.owner + Len(ownerIds) = Cardinality(OwnerIdSet)
    /\ Distinct(companyIds) /\ Distinct(ownerIds)
    /\ DOMAIN companiesMap \cap {companyIds[i] : i \in 1..Len(companyIds)} = {}
    /\ DOMAIN ownersMap \cap {ownerIds[i] : i \in 1..Len(ownerIds)} = {}

\* the run went through the lookups and has returned
LookedUp == FetchCompleted /\ ~NoneQualified

OwnerLookupFailed(contact) ==
  contact.hubspot_owner_id # "" /\ contact.hubspot_owner_id \notin DOMAIN ownersMap

C25_FailedLookupsNeverAbort ==
  /\ LookupsOnceEach
  /\ LookedUp =>
       /\ calls.company = Cardinality(CompanyIdSet)
       /\ calls.owner = Cardinality(OwnerIdSet)
       /\ processed \notin {Null, Thrown, Pending}
       /\ processed.totalAccounts = Len(contacts)
       /\ Len(data) = Len(contacts)
       /\ \A i \in 1..Len(contacts) :
            OwnerLookupFailed(contacts[i]) => data[i].PrimaryRepName = "N/A"

\* three filtered contacts of two owners and two companies; the lookup of the
\* first company and of the first owner, both of which the remote has, failed
\* and the later lookups were still issued
C25_Witness ==
  /\ LookedUp /\ Len(contacts) = 3
  /\ calls.company = 2 /\ "900" \notin DOMAIN companiesMap
  /\ calls.owner = 2 /\ "7" \notin DOMAIN ownersMap /\ "8" \in DOMAIN ownersMap
  /\ data[1].PrimaryRepName = "N/A"

\* C26: whichever page requests succeed or fail, the collection handed to
\* the qualification filter holds no contact twice; the contacts that
\* Search API pages collected before a search failure are not added again by
\* the pagination fallback
C26_NoContactCollectedTwice ==
  pc = "filter" =>
    \A i, j \in 1..Len(allContacts) : allContacts[i].id = allContacts[j].id => i = j

\* the same without a failed search request
C26_NoContactTwiceWithoutSearchFailure == ~faults.search => C26_NoContactCollectedTwice

\* C27: topPerformingAccounts and leastPerformingAccounts hold only accounts
\* that totalRevenue counts: an account whose value has a magnitude over 1e12
\* is in neither list
Counted(account) == Leq(Abs(parseCurrency(account.TotalSales)), MaxMagnitude)

C27_RankedListsHoldOnlyCountedAccounts ==
  Aggregated =>
    /\ \A i \in 1..Len(processed.topPerformingAccounts) :
         Counted(processed.topPerformingAccounts[i])
    /\ \A i \in 1..Len(processed.leastPerformingAccounts) :
         Counted(processed.leastPerformingAccounts[i])

\* C28: an account made from a contact without hs_analytics_source and with
\* a non-empty hs_latest_source is classified by the traffic-source rollup
\* under its normalized latest source, not under "Unknown"
OnlyLatestSource(contact) ==
  contact.hs_analytics_source = "" /\ contact.hs_latest_source # ""

C28_LatestSourceClassifiesAccount ==
  LookedUp =>
    \A i \in 1..Len(contacts) :
      OnlyLatestSource(contacts[i]) =>
        /\ normalizeTrafficSource(contacts[i].hs_latest_source)
             \in DOMAIN processed.trafficSourcePerformance
        /\ "Unknown" \in DOMAIN processed.trafficSourcePerformance
             => \E j \in 1..Len(contacts) : ~OnlyLatestSource(contacts[j])

\* C29: fastResponders holds at most 3 and slowResponders at most 2 rep
\* names, taken from the reps ranked by descending lead count, and no rep
\* name is in both lists, however many distinct reps there are
Responders == processed.timeBasedInsights.responseTimeMetrics

NamesOf(list) == {list[i] : i \in 1..Len(list)}

RepNames == {Or(data[i].PrimaryRepName, "Unknown") : i \in 1..Len(data)}

C29_RespondersBoundedAndDisjoint ==
  Aggregated =>
    /\ Len(Responders.fastResponders) <= 3
    /\ Len(Responders.slowResponders) <= 2
    /\ NamesOf(Responders.fastResponders) \subseteq RepNames
    /\ NamesOf(Responders.slowResponders) \subseteq RepNames
    /\ NamesOf(Responders.fastResponders) \cap NamesOf(Responders.slowResponders) = {}

\* the same without the disjointness
C29_RespondersBounded ==
  Aggregated =>
    /\ Len(Responders.fastResponders) <= 3
    /\ Len(Responders.slowResponders) <= 2
    /\ NamesOf(Responders.fastResponders) \subseteq RepNames
    /\ NamesOf(Responders.slowResponders) \subseteq RepNames

\* C30: whatever the interleaving of date changes, sync requests and their
\* completions, once no fetch is in flight the stored processedData is the
\* snapshot fetched for the dates now selected: the answer of an older sync
\* never replaces the result of a newer one, and a sync that fails, by a null
\* answer or by a thrown error, leaves the stored snapshot as it was and sets
\* the error
NoneFailed == \A i \in 1..Len(syncs) : syncs[i].status # "failed"

\* the snapshot the page would store for the dates now selected
SnapshotOfSelection == cleanedData(csvFallback(csvFile, startDate, endDate, now))

StoredIsOfSelection ==
  (syncs # <<>> /\ ~isPending /\ NoneFailed) => processedData = SnapshotOfSelection

\* sync i is settled by this step
Settles(i) == i <= Len(syncs) /\ syncs[i].status = "pending" /\ syncs'[i].status # "pending"

OlderNeverReplacesNewer ==
  \A i \in 1..MaxSyncs + 1 :
    (Settles(i) /\ \E j \in i + 1..Len(syncs) : syncs[j].status = "stored")
      => processedData' = processedData

FailedSyncKeepsSnapshot ==
  \A i \in 1..MaxSyncs + 1 :
    (Settles(i) /\ syncs'[i].status = "failed")
      => processedData' = processedData /\ error' # ""

C30_StoredSnapshotIsOfLatestSelection ==
  /\ []StoredIsOfSelection
  /\ [][OlderNeverReplacesNewer]_vars
  /\ [][FailedSyncKeepsSnapshot]_vars

=============================================================================
